---- MODULE Spec2Model ----
(***************************************************************************)
(* Season statistics, points ranking, season transition and match creation *)
(* sessions of the foosball bot: src/services/seasonService.js,            *)
(* src/services/seasonTransitionService.js, src/services/matchService.js,  *)
(* src/handlers/commandHandlers.js, src/models/Season.js, src/utils/elo.js.*)
(***************************************************************************)
EXTENDS Integers, Sequences, FiniteSets, TLC

(* ---------------------------- bounds ----------------------------------- *)
NumPlayers == 5
MaxMatches == 2
MaxTicks == 1
MaxRuns == 1
MaxLen == 4
MaxMinutes == 6
MaxSessionMatches == 1
MaxPlays == 1

(* ------------------------- program constants --------------------------- *)
K_FACTOR == 32
DefaultElo == 1000

Players == 1..NumPlayers

VARIABLES
  clock,          \* wall clock, [y, m]: what new Date() yields
  elo,            \* Player.elo
  seasonStartElo, \* Player.seasonStartElo, a Map season -> Elo
  chatId,         \* TRUE when Player.chatId is set
  matches,        \* the Match collection, in insertion order
  seasonDocs,     \* the Season collection, in insertion order
  lastOp,         \* the last completed call and what it returned
  runs,           \* transition runs so far
  procs,          \* in-flight updateSeasonStats calls (locals of each)
  fnIn,           \* argument of the pure function under test
  fnOut,          \* its result
  matchCreationState, \* the handlers' Map chatId -> match creation session
  dateNow,        \* Date.now(), in minutes since the bot started
  playSession,    \* the handlers' playSession object
  playButtons,    \* inline buttons sent and not pressed yet
  playCalls,      \* /play and play callback handlers in flight
  recordCalls     \* matchService.recordMatch calls in flight (locals of each)

vars == <<clock, elo, seasonStartElo, chatId, matches, seasonDocs, lastOp,
          runs, procs, fnIn, fnOut,
                 matchCreationState, dateNow,
                 playSession, playButtons, playCalls, recordCalls>>

Range(s) == {s[i] : i \in 1..Len(s)}
Max(a, b) == IF a >= b THEN a ELSE b
Min(a, b) == IF a <= b THEN a ELSE b

(* --------------------------- utils/elo.js ------------------------------ *)
\* Math.round(K_FACTOR * (1 - E)) as a function of D = (sum of the winning
\* pair's ratings) - (sum of the losing pair's ratings), with
\* E = 1 / (1 + 10^((avgLoser - avgWinner) / 400)).  EloSteps[g] is the
\* largest D for which the rounded gain is still >= g.
EloSteps ==
  <<1439, 1046, 857, 728, 628, 546, 474, 411, 353, 299, 248, 200, 154, 109,
    65, 21, -22, -66, -110, -155, -201, -249, -300, -354, -412, -475, -547,
    -629, -729, -858, -1047, -1440>>

\* updateTeamElo taking only half of the winners' gain from the losers
updateTeamEloHalfLoss(winnerRatings, loserRatings) ==
  LET D == (winnerRatings[1] + winnerRatings[2])
           - (loserRatings[1] + loserRatings[2])
      delta == Cardinality({g \in 1..K_FACTOR : D <= EloSteps[g]})
  IN  [winners |-> [i \in 1..2 |-> winnerRatings[i] + delta],
       losers  |-> [i \in 1..2 |-> loserRatings[i] - (delta \div 2)]]

updateTeamElo(winnerRatings, loserRatings) ==
  LET D == (winnerRatings[1] + winnerRatings[2])
           - (loserRatings[1] + loserRatings[2])
      delta == Cardinality({g \in 1..K_FACTOR : D <= EloSteps[g]})
  IN  [winners |-> [i \in 1..2 |-> winnerRatings[i] + delta],
       losers  |-> [i \in 1..2 |-> loserRatings[i] - delta]]

calculateTeamEloChanges(winnerRatings, loserRatings) ==
  LET new == updateTeamElo(winnerRatings, loserRatings)
  IN  [winners |-> [i \in 1..2 |-> new.winners[i] - winnerRatings[i]],
       losers  |-> [i \in 1..2 |-> new.losers[i] - loserRatings[i]]]

\* calculateTeamEloChanges as it is called: the two teams in the order given
\* and the number of the winning team
calculateTeamEloChangesOf(team1Ratings, team2Ratings, winnerTeam) ==
  LET changes == IF winnerTeam = 1
                 THEN calculateTeamEloChanges(team1Ratings, team2Ratings)
                 ELSE calculateTeamEloChanges(team2Ratings, team1Ratings)
  IN  [team1Changes |-> IF winnerTeam = 1 THEN changes.winners ELSE changes.losers,
       team2Changes |-> IF winnerTeam = 1 THEN changes.losers ELSE changes.winners]

getCurrentSeason(now) == [y |-> now.y, m |-> now.m]

\* String(n): the decimal digits of a natural number
RECURSIVE digitsOf(_)
digitsOf(n) == IF n < 10 THEN <<n>> ELSE Append(digitsOf(n \div 10), n % 10)

\* the season identifier with the month not padded
seasonTextNoPad(season) == digitsOf(season.y) \o <<"-">> \o digitsOf(season.m)

\* the string getCurrentSeason builds: `${year}-${month}` with the month
\* padStart(2, '0'); a sequence of digits and "-"
seasonText(season) ==
  digitsOf(season.y) \o <<"-">>
    \o (IF Len(digitsOf(season.m)) < 2 THEN <<0>> ELSE <<>>) \o digitsOf(season.m)

\* the schema's match: /^\d{4}-\d{2}$/
seasonPattern(text) ==
  /\ Len(text) = 7
  /\ \A i \in {1, 2, 3, 4, 6, 7} : text[i] \in 0..9
  /\ text[5] = "-"

(* -------------------- seasonTransitionService.js ----------------------- *)
\* getNextSeason without the December case
getNextSeasonNoWrap(now) == [y |-> now.y, m |-> now.m + 1]

getNextSeason(now) ==
  IF now.m = 12 THEN [y |-> now.y + 1, m |-> 1]
  ELSE [y |-> now.y, m |-> now.m + 1]

getPreviousSeason(now) ==
  IF now.m = 1 THEN [y |-> now.y - 1, m |-> 12]
  ELSE [y |-> now.y, m |-> now.m - 1]

(* ------------------------- models/Season.js ---------------------------- *)
Categories ==
  <<"eloGains", "matchesPlayed", "dryWins", "totalWins", "longestStreak">>

\* index of the entry keyed by playerId in the playerStats Map, 0 if none
statIndex(playerStats, playerId) ==
  IF \E i \in 1..Len(playerStats) : playerStats[i].playerId = playerId
  THEN CHOOSE i \in 1..Len(playerStats) : playerStats[i].playerId = playerId
  ELSE 0

\* addOrUpdatePlayerStats adding the supplied numbers to the stored ones
addOrUpdatePlayerStatsAccumulate(playerStats, playerId, stats) ==
  LET k == statIndex(playerStats, playerId)
  IN  IF k # 0
      THEN [playerStats EXCEPT ![k] =
              [f \in DOMAIN playerStats[k] |->
                 IF f \in DOMAIN stats THEN playerStats[k][f] + stats[f]
                 ELSE playerStats[k][f]]]
      ELSE Append(playerStats,
                  [playerId |-> playerId,
                   eloGains |-> stats.eloGains,
                   matchesPlayed |-> stats.matchesPlayed,
                   dryWins |-> stats.dryWins,
                   totalWins |-> stats.totalWins,
                   longestStreak |-> stats.longestStreak,
                   totalPoints |-> 0])

\* the numeric fields of a playerStats entry; each has schema default 0
StatFields == Range(Categories) \cup {"totalPoints"}

\* { playerId, ...stats } cast to the schema of a playerStats value
newEntry(playerId, stats) ==
  [f \in StatFields \cup {"playerId"} |->
     IF f = "playerId" THEN playerId
     ELSE IF f \in DOMAIN stats THEN stats[f] ELSE 0]

\* addOrUpdatePlayerStats setting a fresh value under the key every time
addOrUpdatePlayerStatsReplace(playerStats, playerId, stats) ==
  LET k == statIndex(playerStats, playerId)
  IN  IF k # 0
      THEN [playerStats EXCEPT ![k] = newEntry(playerId, stats)]
      ELSE Append(playerStats, newEntry(playerId, stats))

addOrUpdatePlayerStats(playerStats, playerId, stats) ==
  LET k == statIndex(playerStats, playerId)
  IN  IF k # 0
      THEN [playerStats EXCEPT ![k] =
              [f \in DOMAIN playerStats[k] |->
                 IF f \in DOMAIN stats THEN stats[f] ELSE playerStats[k][f]]]
      ELSE Append(playerStats, newEntry(playerId, stats))

getPlayerStatsArray(doc) == doc.playerStats

(* ----------------------- services/seasonService.js --------------------- *)
\* Array.prototype.sort((a, b) => b[f] - a[f]): stable, descending by f
RECURSIVE sortDesc(_, _)
sortDesc(s, f) ==
  IF Len(s) <= 1 THEN s
  ELSE LET x == Head(s)
           rest == sortDesc(Tail(s), f)
           before == {i \in 1..Len(rest) : rest[i][f] > x[f]}
           n == Cardinality(before)
       IN  SubSeq(rest, 1, n) \o <<x>> \o SubSeq(rest, n + 1, Len(rest))

\* the walk with ranks compressed after a tie (1, 1, 2 instead of 1, 1, 3)
RECURSIVE categoryWalkDense(_, _, _, _, _, _, _)
categoryWalkDense(sorted, category, i, currentRank, currentValue, currentPoints, acc) ==
  IF i > Len(sorted) THEN acc
  ELSE LET stat == sorted[i]
           tied == (i > 1) /\ (stat[category] = currentValue)
           rank == IF i = 1 \/ tied THEN currentRank ELSE currentRank + 1
           points == IF i = 1 THEN 3
                     ELSE IF tied THEN currentPoints
                     ELSE IF rank <= 3 THEN 4 - rank ELSE 0
       IN  categoryWalkDense(sorted, category, i + 1, rank, stat[category],
                             IF i = 1 THEN currentPoints ELSE points,
                             Append(acc, [playerId |-> stat.playerId,
                                          value |-> stat[category],
                                          rank |-> rank,
                                          points |-> points]))

\* the forEach of calculateCategoryPoints over the sorted array from index i
\* (1-based) on; acc collects [playerId, value, rank, points] per element
RECURSIVE categoryWalk(_, _, _, _, _, _, _)
categoryWalk(sorted, category, i, currentRank, currentValue, currentPoints, acc) ==
  IF i > Len(sorted) THEN acc
  ELSE LET stat == sorted[i]
           tied == (i > 1) /\ (stat[category] = currentValue)
           rank == IF i = 1 \/ tied THEN currentRank ELSE i
           points == IF i = 1 THEN 3
                     ELSE IF tied THEN currentPoints
                     ELSE IF rank <= 3 THEN 4 - rank ELSE 0
       IN  categoryWalk(sorted, category, i + 1, rank, stat[category],
                        IF i = 1 THEN currentPoints ELSE points,
                        Append(acc, [playerId |-> stat.playerId,
                                     value |-> stat[category],
                                     rank |-> rank,
                                     points |-> points]))

calculateCategoryPoints(playerStats, category) ==
  categoryWalk(sortDesc(playerStats, category), category, 1, 1, 0, 3, <<>>)

\* stat[`${category}Points`] || 0 for one player
categoryPointsOf(playerStats, category, playerId) ==
  LET r == calculateCategoryPoints(playerStats, category)
  IN  IF \E i \in 1..Len(r) : r[i].playerId = playerId
      THEN r[CHOOSE i \in 1..Len(r) : r[i].playerId = playerId].points
      ELSE 0

RECURSIVE sumPoints(_, _, _)
sumPoints(playerStats, playerId, k) ==
  IF k = 0 THEN 0
  ELSE categoryPointsOf(playerStats, Categories[k], playerId)
       + sumPoints(playerStats, playerId, k - 1)

\* calculateTotalPoints leaving the last category out of the sum
calculateTotalPointsFourCategories(playerStats) ==
  sortDesc([i \in 1..Len(playerStats) |->
              [playerStats[i] EXCEPT !.totalPoints =
                 sumPoints(playerStats, playerStats[i].playerId,
                           Len(Categories) - 1)]],
           "totalPoints")

calculateTotalPoints(playerStats) ==
  sortDesc([i \in 1..Len(playerStats) |->
              [playerStats[i] EXCEPT !.totalPoints =
                 sumPoints(playerStats, playerStats[i].playerId, Len(Categories))]],
           "totalPoints")

isWinner(m, playerId) == \E i \in 1..Len(m.winners) : m.winners[i] = playerId

\* matches.sort((a, b) => new Date(a.playedAt) - new Date(b.playedAt))
RECURSIVE sortByPlayedAt(_)
sortByPlayedAt(s) ==
  IF Len(s) <= 1 THEN s
  ELSE LET x == Head(s)
           rest == sortByPlayedAt(Tail(s))
           n == Cardinality({i \in 1..Len(rest) : rest[i].playedAt < x.playedAt})
       IN  SubSeq(rest, 1, n) \o <<x>> \o SubSeq(rest, n + 1, Len(rest))

RECURSIVE streakWalk(_, _, _, _, _)
streakWalk(sorted, playerId, i, currentStreak, longestStreak) ==
  IF i > Len(sorted) THEN longestStreak
  ELSE IF isWinner(sorted[i], playerId)
       THEN streakWalk(sorted, playerId, i + 1, currentStreak + 1,
                       Max(longestStreak, currentStreak + 1))
       ELSE streakWalk(sorted, playerId, i + 1, 0, longestStreak)

\* calculateWinStreak walking the matches in the order passed in
calculateWinStreakUnsorted(ms, playerId) ==
  IF Len(ms) = 0 THEN 0
  ELSE streakWalk(ms, playerId, 1, 0, 0)

calculateWinStreak(ms, playerId) ==
  IF Len(ms) = 0 THEN 0
  ELSE streakWalk(sortByPlayedAt(ms), playerId, 1, 0, 0)

\* loserEloChanges.reduce((sum, change) => sum + change, 0)
RECURSIVE sumOf(_)
sumOf(s) == IF Len(s) = 0 THEN 0 ELSE Head(s) + sumOf(Tail(s))

\* detectDryWin with the threshold itself counted as a dry win
detectDryWinInclusive(match) ==
  sumOf(match.eloChanges.losers) <= -15 * Len(match.eloChanges.losers)

\* detectDryWin: avgLoserChange < -15, the average being the sum divided by
\* the number of losers (compared here after multiplying by that number)
detectDryWin(match) ==
  sumOf(match.eloChanges.losers) < -15 * Len(match.eloChanges.losers)

\* Season.findOne({ season }): position of the first document of the
\* season in the collection, 0 when there is none
findOne(docs, season) ==
  IF \E i \in 1..Len(docs) : docs[i].season = season
  THEN CHOOSE i \in 1..Len(docs) :
         /\ docs[i].season = season
         /\ \A j \in 1..(i - 1) : docs[j].season # season
  ELSE 0

\* getSeasonStats: the collection after the call (a new empty document is
\* saved when none exists) and the position of the returned document
getSeasonStats(docs, season) ==
  IF findOne(docs, season) # 0
  THEN [docs |-> docs, at |-> findOne(docs, season)]
  ELSE [docs |-> Append(docs, [season |-> season, playerStats |-> <<>>]),
        at |-> Len(docs) + 1]

\* Match.find({ season, players: playerId }).sort({ playedAt: 1 })
findMatches(ledger, season, playerId) ==
  sortByPlayedAt(SelectSeq(ledger,
    LAMBDA m : m.season = season /\ playerId \in Range(m.players)))

\* ensureSeasonStartElo without the has(season) test
ensureSeasonStartEloOverwrite(sse, ratings, playerId, season) ==
  [sse EXCEPT ![playerId] =
     [s \in (DOMAIN sse[playerId]) \cup {season} |->
        IF s = season THEN ratings[playerId] ELSE sse[playerId][s]]]

\* ensureSeasonStartElo on the stored seasonStartElo maps: records the
\* player's current Elo when the season has no entry, else changes nothing
ensureSeasonStartElo(sse, ratings, playerId, season) ==
  IF season \in DOMAIN sse[playerId] THEN sse
  ELSE [sse EXCEPT ![playerId] =
          [s \in (DOMAIN sse[playerId]) \cup {season} |->
             IF s = season THEN ratings[playerId] ELSE sse[playerId][s]]]

\* the raw fields with dryWins counting every dry match the player took
\* part in, won or lost
rawStatsDryAnyResult(playerMatches, ratings, sse, playerId, season) ==
  LET recorded == IF season \in DOMAIN sse[playerId]
                  THEN sse[playerId][season] ELSE 0
      start == IF recorded # 0 THEN recorded ELSE ratings[playerId]
  IN  [eloGains |-> Max(0, ratings[playerId] - start),
       matchesPlayed |-> Len(playerMatches),
       dryWins |-> Len(SelectSeq(playerMatches, LAMBDA m : m.isDryWin)),
       totalWins |-> Len(SelectSeq(playerMatches,
                     LAMBDA m : isWinner(m, playerId))),
       longestStreak |-> calculateWinStreak(playerMatches, playerId)]

\* the five raw fields updateSeasonStats computes for one player (lines
\* 185-203) from the matches found, read after ensureSeasonStartElo has run
rawStats(playerMatches, ratings, sse, playerId, season) ==
  LET recorded == IF season \in DOMAIN sse[playerId]
                  THEN sse[playerId][season] ELSE 0
      start == IF recorded # 0 THEN recorded ELSE ratings[playerId]
  IN  [eloGains |-> Max(0, ratings[playerId] - start),
       matchesPlayed |-> Len(playerMatches),
       dryWins |-> Len(SelectSeq(playerMatches,
                     LAMBDA m : m.isDryWin /\ isWinner(m, playerId))),
       totalWins |-> Len(SelectSeq(playerMatches,
                     LAMBDA m : isWinner(m, playerId))),
       longestStreak |-> calculateWinStreak(playerMatches, playerId)]

playerRawStats(ledger, ratings, sse, playerId, season) ==
  rawStats(findMatches(ledger, season, playerId), ratings, sse, playerId, season)

\* the for loop of updateSeasonStats run to the end without interleaving:
\* the seasonStartElo maps and the document's playerStats after it
RECURSIVE upsertLoop(_, _, _, _, _, _, _)
upsertLoop(allPlayers, k, ledger, ratings, sse, playerStats, season) ==
  IF k > Len(allPlayers) THEN [sse |-> sse, playerStats |-> playerStats]
  ELSE LET playerId == allPlayers[k]
           sse2 == ensureSeasonStartElo(sse, ratings, playerId, season)
       IN  upsertLoop(allPlayers, k + 1, ledger, ratings, sse2,
             addOrUpdatePlayerStats(playerStats, playerId,
               playerRawStats(ledger, ratings, sse2, playerId, season)),
             season)

\* the recompute keeping a totalPoints that was computed before
withTotalPointsStale(playerStats) ==
  LET arr == calculateTotalPoints(playerStats)
  IN  [i \in 1..Len(playerStats) |->
         IF playerStats[i].totalPoints # 0 THEN playerStats[i]
         ELSE arr[CHOOSE j \in 1..Len(arr) :
                    arr[j].playerId = playerStats[i].playerId]]

\* lines 215-222: recompute totalPoints over the whole array and write each
\* entry back under its key (Map.set keeps the position of an existing key)
withTotalPoints(playerStats) ==
  LET arr == calculateTotalPoints(playerStats)
  IN  [i \in 1..Len(playerStats) |->
         arr[CHOOSE j \in 1..Len(arr) : arr[j].playerId = playerStats[i].playerId]]

\* seasonDoc.save() of a loaded document: every key set on the local Map
\* is written to the stored Map, keys the local copy lacks are left alone
RECURSIVE saveSeasonDoc(_, _, _)
saveSeasonDoc(stored, local, k) ==
  IF k > Len(local) THEN stored
  ELSE LET at == statIndex(stored, local[k].playerId)
       IN  saveSeasonDoc(IF at # 0 THEN [stored EXCEPT ![at] = local[k]]
                         ELSE Append(stored, local[k]),
                         local, k + 1)

\* the summary ranked from the fewest totalPoints up
leaderboardSummaryAscending(playerStats) ==
  LET sorted == sortDesc(playerStats, "totalPoints")
      n == Len(sorted)
  IN  [i \in 1..n |->
         [rank |-> i, player |-> sorted[n + 1 - i].playerId,
          value |-> sorted[n + 1 - i].totalPoints]]

\* the summary of getSeasonLeaderboard (lines 268-275)
leaderboardSummary(playerStats) ==
  LET sorted == sortDesc(playerStats, "totalPoints")
  IN  [i \in 1..Len(sorted) |->
         [rank |-> i, player |-> sorted[i].playerId,
          value |-> sorted[i].totalPoints]]

\* one category table of getSeasonLeaderboard: the array as sorted in place
\* by the category, mapped to { rank, player, value }
categoryTable(sorted, category) ==
  [i \in 1..Len(sorted) |->
     [rank |-> i, player |-> sorted[i].playerId, value |-> sorted[i][category]]]

\* the array after the in-place sorts up to and including category k (the
\* summary's sort by totalPoints comes first, line 269)
RECURSIVE sortedThrough(_, _)
sortedThrough(playerStats, k) ==
  IF k = 0 THEN sortDesc(playerStats, "totalPoints")
  ELSE sortDesc(sortedThrough(playerStats, k - 1), Categories[k])

\* getSeasonLeaderboard's result with a placeholder row in the summary of an
\* empty array instead of the early return
leaderboardResultNoEarlyReturn(season, playerStats) ==
  [season |-> season,
   summary |-> leaderboardSummary(playerStats)
                 \o (IF Len(playerStats) = 0
                     THEN <<[rank |-> 1, player |-> 0, value |-> 0]>>
                     ELSE <<>>),
   categories |-> [c \in Range(Categories) |->
                     categoryTable(
                       sortedThrough(playerStats,
                         CHOOSE k \in 1..Len(Categories) : Categories[k] = c),
                       c)]]

\* what getSeasonLeaderboard returns for the document's playerStats array
\* (lines 243-320)
leaderboardResult(season, playerStats) ==
  IF Len(playerStats) = 0
  THEN [season |-> season, summary |-> <<>>,
        categories |-> [c \in Range(Categories) |-> <<>>]]
  ELSE [season |-> season,
        summary |-> leaderboardSummary(playerStats),
        categories |-> [c \in Range(Categories) |->
                          categoryTable(
                            sortedThrough(playerStats,
                              CHOOSE k \in 1..Len(Categories) : Categories[k] = c),
                            c)]]

(* -------------------- seasonTransitionService.js ----------------------- *)
\* getSeasonWinners keeping the top two only
getSeasonWinnersTopTwo(summary) ==
  IF Len(summary) = 0 THEN <<>> ELSE SubSeq(summary, 1, Min(2, Len(summary)))

\* getSeasonWinners given the summary the leaderboard returned
getSeasonWinners(summary) ==
  IF Len(summary) = 0 THEN <<>> ELSE SubSeq(summary, 1, Min(3, Len(summary)))

\* sendSeasonNotification without the try/catch around bot.sendMessage
sendSeasonNotificationNoCatch(hasChat, player, winners, isWinnerArg, sendFail) ==
  IF ~hasChat[player] THEN [attempt |-> <<>>, threw |-> FALSE]
  ELSE [attempt |-> <<[to |-> player,
                       variant |-> IF isWinnerArg THEN "congratulations"
                                   ELSE "ended",
                       rank |-> 0, points |-> 0,
                       delivered |-> player \notin sendFail]>>,
        threw |-> player \in sendFail]

\* one call of sendSeasonNotification: the message handed to
\* bot.sendMessage (none without chatId) and whether the call threw
sendSeasonNotification(hasChat, player, winners, isWinnerArg, sendFail) ==
  IF ~hasChat[player] THEN [attempt |-> <<>>, threw |-> FALSE]
  ELSE LET info == SelectSeq(winners, LAMBDA w : w.player = player)
           rank == IF Len(info) > 0 THEN info[1].rank ELSE 0
           points == IF Len(info) > 0 THEN info[1].value ELSE 0
           msg == IF isWinnerArg
                  THEN [to |-> player, variant |-> "congratulations",
                        rank |-> rank, points |-> points,
                        delivered |-> player \notin sendFail]
                  ELSE [to |-> player, variant |-> "ended",
                        rank |-> 0, points |-> 0,
                        delivered |-> player \notin sendFail]
       IN  [attempt |-> <<msg>>, threw |-> FALSE]

\* the for loop of createNewSeasonAndNotify (lines 502-505) over the player
\* list; stops at the first call that throws
RECURSIVE notifyLoop(_, _, _, _, _)
notifyLoop(hasChat, k, winners, sendFail, acc) ==
  IF k > NumPlayers THEN [messages |-> acc, threw |-> FALSE]
  ELSE LET r == sendSeasonNotification(hasChat, k, winners,
                  \E i \in 1..Len(winners) : winners[i].player = k, sendFail)
       IN  IF r.threw THEN [messages |-> acc \o r.attempt, threw |-> TRUE]
           ELSE notifyLoop(hasChat, k + 1, winners, sendFail, acc \o r.attempt)

\* ensureAllPlayersSeasonStartElo: Player.find({}) lists the players in
\* registration order
RECURSIVE ensureAllPlayersSeasonStartElo(_, _, _, _)
ensureAllPlayersSeasonStartElo(sse, ratings, k, season) ==
  IF k > NumPlayers THEN sse
  ELSE ensureAllPlayersSeasonStartElo(
         ensureSeasonStartElo(sse, ratings, k, season), ratings, k + 1, season)

(* ------------------------------ state ---------------------------------- *)
StartClock == [y |-> 2024, m |-> 12]
NoOp == [op |-> "none"]

\* the updateSeasonStats calls that may be in flight, and the locals of a
\* call that has not started
Procs == {"A", "B"}
Idle == [pc |-> "idle", match |-> 0, at |-> 0, stats |-> <<>>, k |-> 1,
         playerMatches |-> <<>>, playerElo |-> 0]

\* freshly registered players, empty Match and Season collections
\* the playSession object as the module creates it (lines 10-16)
NoPlaySession ==
  [active |-> FALSE, invited |-> <<>>, accepted |-> <<>>, declined |-> <<>>]

\* no invitation and no cancel button is on any user's screen, and no
\* round of invitations has been sent
NoPlayButtons ==
  [invitations |-> [p \in Players |-> 0], cancel |-> FALSE, rounds |-> 0]

\* handlers of /play and of play callbacks that may be in flight together
PlayCalls == {"X", "Y"}
\* the slot a handler that starts now runs in: the first idle one
freeCall(c) ==
  /\ playCalls[c].pc = "idle"
  /\ c = "Y" => playCalls["X"].pc # "idle"
IdleCall == [pc |-> "idle", username |-> 0, loopArray |-> <<>>, live |-> FALSE]

\* the recordMatch calls that can be in flight together, and one not running
RecordCalls == {"A", "B"}
IdleRecord ==
  [pc |-> "idle", args |-> <<>>, k |-> 0, players |-> <<>>, match |-> 0]

InitStore ==
  /\ clock = StartClock
  /\ elo = [p \in Players |-> DefaultElo]
  /\ seasonStartElo = [p \in Players |-> <<>>]
  /\ chatId = [p \in Players |-> p # NumPlayers]
  /\ matches = <<>>
  /\ seasonDocs = <<>>
  /\ lastOp = NoOp
  /\ runs = 0
  /\ procs = [c \in Procs |-> Idle]
  /\ matchCreationState = <<>>
  /\ dateNow = 0
  /\ playSession = NoPlaySession
  /\ playButtons = NoPlayButtons
  /\ playCalls = [c \in PlayCalls |-> IdleCall]
  /\ recordCalls = [c \in RecordCalls |-> IdleRecord]

Init ==
  /\ InitStore
  /\ fnIn = <<>>
  /\ fnOut = <<>>

ticks == (clock.y - StartClock.y) * 12 + (clock.m - StartClock.m)

\* the submissions tried: four players with consecutive ids split into two
\* disjoint pairs, each listed in ascending order, team 1 holding the
\* smallest id; either team may be the winner
Pairs == {t \in Players \X Players : t[1] < t[2]}
Submissions ==
  {sub \in [team1 : Pairs, team2 : Pairs, winnerTeam : {1, 2}] :
     /\ sub.team1[1] < sub.team2[1]
     /\ {sub.team1[1], sub.team1[2]} \cap {sub.team2[1], sub.team2[2]} = {}
     /\ \A q \in {sub.team1[2], sub.team2[1], sub.team2[2]} :
          q <= sub.team1[1] + 3}

(* ------------------------ services/matchService.js --------------------- *)
\* a username no player is registered under
Unregistered == 0

\* recordMatch without the check for duplicate players
recordMatchErrorNoDuplicateCheck(sub) ==
  IF Len(sub.team1) # 2 \/ Len(sub.team2) # 2
  THEN "Each team must have exactly 2 players"
  ELSE IF \E u \in Range(sub.team1 \o sub.team2) : u \notin Players
  THEN "Player not found. Please register first."
  ELSE "none"

\* the error recordMatch throws for the submission before anything is
\* saved (lines 14-34), "none" when it passes the checks
recordMatchError(sub) ==
  IF Len(sub.team1) # 2 \/ Len(sub.team2) # 2
  THEN "Each team must have exactly 2 players"
  ELSE IF \E u \in Range(sub.team1 \o sub.team2) : u \notin Players
  THEN "Player not found. Please register first."
  ELSE IF Cardinality(Range(sub.team1 \o sub.team2)) # 4
  THEN "All players must be different"
  ELSE "none"

\* what recordMatch(team1Usernames, team2Usernames, winnerTeam) does to the
\* ledger and the ratings given: the error thrown, or the match saved and
\* the ratings written; an argument after the third is not read
recordMatchWrites(sub, ledger, ratings, date) ==
  IF recordMatchError(sub) # "none"
  THEN [error |-> recordMatchError(sub), matches |-> ledger, elo |-> ratings]
  ELSE LET winners == IF sub.winnerTeam = 1 THEN sub.team1 ELSE sub.team2
           losers == IF sub.winnerTeam = 1 THEN sub.team2 ELSE sub.team1
           changes == calculateTeamEloChanges(
                        <<ratings[winners[1]], ratings[winners[2]]>>,
                        <<ratings[losers[1]], ratings[losers[2]]>>)
           match == [players |-> sub.team1 \o sub.team2,
                     winners |-> winners,
                     losers |-> losers,
                     season |-> getCurrentSeason(date),
                     eloChanges |-> changes,
                     playedAt |-> Len(ledger) + 1,
                     isDryWin |-> FALSE]
       IN  [error |-> "none",
            matches |-> Append(ledger, match),
            elo |-> [p \in Players |->
                       IF \E i \in 1..2 : winners[i] = p
                       THEN ratings[p] + changes.winners[CHOOSE i \in 1..2 : winners[i] = p]
                       ELSE IF \E i \in 1..2 : losers[i] = p
                       THEN ratings[p] + changes.losers[CHOOSE i \in 1..2 : losers[i] = p]
                       ELSE ratings[p]]]

\* recordMatch(team1Usernames, team2Usernames, winnerTeam): sub holds the
\* arguments of the call
recordMatch(sub) ==
  /\ Len(matches) < MaxMatches
  /\ LET writes == recordMatchWrites(sub, matches, elo, clock)
     IN  /\ matches' = writes.matches
         /\ elo' = writes.elo
         /\ lastOp' = IF writes.error # "none"
                      THEN [op |-> "recordMatch", outcome |-> "rejected",
                            error |-> writes.error, args |-> sub]
                      ELSE [op |-> "recordMatch", outcome |-> "resolved",
                            match |-> Len(matches) + 1, args |-> sub]
  /\ UNCHANGED <<clock, seasonStartElo, chatId, seasonDocs, runs, procs, fnIn, fnOut,
                 matchCreationState, dateNow,
                 playSession, playButtons, playCalls, recordCalls>>

(* ------------------------ handlers/commandHandlers.js ------------------ *)
\* handlePlayerSelection for the callback data dry_win_yes / dry_win_no of a
\* session in step ask_dry_win that holds the two winners and the two
\* losers selected (lines 372-386)
handlePlayerSelection(selection, data) ==
  LET isDryWin == (data = "dry_win_yes")
  IN  recordMatch([team1 |-> selection.winners, team2 |-> selection.losers,
                   winnerTeam |-> 1, isDryWin |-> isDryWin])

\* the chats, the Telegram users and the callback data the handlers are
\* given; the username is read for the data player_<username> only
Chats == {1}
Users == {1, 2}
ButtonPlayers == 1..4
CallbackData ==
  {"reset_selection", "cancel_match_creation", "player_", "continue_selection",
   "dry_win_yes", "dry_win_no", "unknown"}
CallbackQueries ==
  {q \in [chatId : Chats, userId : Users, data : CallbackData,
          username : ButtonPlayers \cup {Unregistered}] :
     q.data # "player_" => q.username = Unregistered}

\* Map.set and Map.delete on matchCreationState
mapSet(map, key, value) ==
  [k \in DOMAIN map \cup {key} |-> IF k = key THEN value ELSE map[k]]

\* a delete that leaves the entry in the map
mapDeleteKeepsEntry(map, key) == map

\* Map.delete on matchCreationState
mapDelete(map, key) == [k \in DOMAIN map \ {key} |-> map[k]]

\* the expiry test with a limit of 6 minutes
sessionExpiredAfterSix(state, date) == date - state.timestamp > 6

\* Date.now() - state.timestamp > 5 * 60 * 1000, in minutes
sessionExpired(state, date) == date - state.timestamp > 5

\* handleMatch storing a fresh session over the one the chat has
handleMatchOverwrite(chat, user) ==
  /\ Len(matches) < MaxSessionMatches \/ chat \notin DOMAIN matchCreationState
  /\ NumPlayers >= 4
  /\ matchCreationState' =
       mapSet(matchCreationState, chat,
              [userId |-> user, step |-> "select_winners",
               winners |-> <<>>, losers |-> <<>>, timestamp |-> dateNow])
  /\ lastOp' = [op |-> "handleMatch", reply |-> "select_winners",
                chatId |-> chat, userId |-> user]
  /\ UNCHANGED <<clock, elo, seasonStartElo, chatId, matches, seasonDocs, runs,
                 procs, fnIn, fnOut, dateNow,
                 playSession, playButtons, playCalls, recordCalls>>

\* handleMatch(msg): /match sent by userId in chatId
handleMatch(chat, user) ==
  /\ Len(matches) < MaxSessionMatches \/ chat \notin DOMAIN matchCreationState
  /\ IF chat \in DOMAIN matchCreationState
     THEN /\ lastOp' = [op |-> "handleMatch", reply |-> "already_in_progress",
                        chatId |-> chat, userId |-> user]
          /\ UNCHANGED matchCreationState
     ELSE IF NumPlayers < 4
     THEN /\ lastOp' = [op |-> "handleMatch", reply |-> "not_enough_players",
                        chatId |-> chat, userId |-> user]
          /\ UNCHANGED matchCreationState
     ELSE /\ matchCreationState' =
               mapSet(matchCreationState, chat,
                      [userId |-> user, step |-> "select_winners",
                       winners |-> <<>>, losers |-> <<>>,
                       timestamp |-> dateNow])
          /\ lastOp' = [op |-> "handleMatch", reply |-> "select_winners",
                        chatId |-> chat, userId |-> user]
  /\ UNCHANGED <<clock, elo, seasonStartElo, chatId, matches, seasonDocs, runs,
                 procs, fnIn, fnOut, dateNow,
                 playSession, playButtons, playCalls, recordCalls>>

\* the data reset_selection (lines 180-200): the selection of the step is
\* emptied
resetSelection(state) ==
  IF state.step = "select_winners" THEN [state EXCEPT !.winners = <<>>]
  ELSE [state EXCEPT !.losers = <<>>]

\* the data player_<username> for a registered player (lines 222-312): the
\* player is toggled in the selection of the step; two losers selected in
\* step select_losers move the session to ask_dry_win
selectPlayer(state, player, date) ==
  LET inWinners == state.step = "select_winners"
      current == IF inWinners THEN state.winners ELSE state.losers
      isAlreadySelected == \E i \in 1..Len(current) : current[i] = player
      toggled == IF isAlreadySelected
                 THEN SelectSeq(current, LAMBDA p : p # player)
                 ELSE Append(current, player)
      selected == IF inWinners THEN [state EXCEPT !.winners = toggled]
                  ELSE [state EXCEPT !.losers = toggled]
  IN  IF ~isAlreadySelected /\ Len(current) >= 2
      THEN [state |-> state,
            reply |-> IF inWinners THEN "maximum_2_winners" ELSE "maximum_2_losers"]
      ELSE IF Len(toggled) = 2 /\ state.step = "select_losers"
      THEN [state |-> [selected EXCEPT !.step = "ask_dry_win",
                                       !.timestamp = date],
            reply |-> "ask_dry_win"]
      ELSE [state |-> selected, reply |-> "select_players"]

\* continue_selection without the count of the selection
continueSelectionAnyCount(state, date) ==
  IF state.step = "select_winners"
  THEN [state |-> [state EXCEPT !.step = "select_losers",
                                !.timestamp = date],
        reply |-> "select_losers"]
  ELSE IF state.step = "select_losers"
  THEN [state |-> [state EXCEPT !.step = "ask_dry_win",
                                !.timestamp = date],
        reply |-> "ask_dry_win"]
  ELSE [state |-> state, reply |-> "null"]

\* the data continue_selection (lines 314-368); in step ask_dry_win the
\* handler falls through and returns null
continueSelection(state, date) ==
  IF state.step = "select_winners"
  THEN IF Len(state.winners) # 2
       THEN [state |-> state, reply |-> "select_exactly_2_winners"]
       ELSE [state |-> [state EXCEPT !.step = "select_losers",
                                     !.timestamp = date],
             reply |-> "select_losers"]
  ELSE IF state.step = "select_losers"
  THEN IF Len(state.losers) # 2
       THEN [state |-> state, reply |-> "select_exactly_2_losers"]
       ELSE [state |-> [state EXCEPT !.step = "ask_dry_win",
                                     !.timestamp = date],
             reply |-> "ask_dry_win"]
  ELSE [state |-> state, reply |-> "null"]

\* what handlePlayerSelection(callbackQuery) returns and leaves behind:
\* the session map, the ledger, the ratings, and the reply or the error
\* thrown
callbackResult(q, sessions, ledger, ratings, date, monthNow) ==
  LET kept(reply) == [sessions |-> sessions, matches |-> ledger,
                      elo |-> ratings, outcome |-> "resolved", reply |-> reply]
      stored(r) == [sessions |-> mapSet(sessions, q.chatId, r.state),
                    matches |-> ledger, elo |-> ratings,
                    outcome |-> "resolved", reply |-> r.reply]
      removed(reply) == [sessions |-> mapDelete(sessions, q.chatId),
                         matches |-> ledger, elo |-> ratings,
                         outcome |-> "resolved", reply |-> reply]
  IN  IF q.chatId \notin DOMAIN sessions THEN kept("invalid_action")
      ELSE LET state == sessions[q.chatId]
           IN  IF state.userId # q.userId THEN kept("invalid_action")
               ELSE IF sessionExpired(state, date) THEN removed("session_expired")
               ELSE IF q.data = "reset_selection"
               THEN stored([state |-> resetSelection(state),
                            reply |-> "select_players"])
               ELSE IF q.data = "cancel_match_creation" THEN removed("cancelled")
               ELSE IF q.data = "player_"
               THEN IF q.username = Unregistered THEN kept("player_not_found")
                    ELSE stored(selectPlayer(state, q.username, date))
               ELSE IF q.data = "continue_selection"
               THEN stored(continueSelection(state, date))
               ELSE IF q.data \in {"dry_win_yes", "dry_win_no"}
               THEN IF state.step # "ask_dry_win" THEN kept("invalid_step")
                    ELSE LET writes == recordMatchWrites(
                                         [team1 |-> state.winners,
                                          team2 |-> state.losers,
                                          winnerTeam |-> 1,
                                          isDryWin |-> q.data = "dry_win_yes"],
                                         ledger, ratings, monthNow)
                         IN  IF writes.error # "none"
                             THEN [sessions |-> sessions, matches |-> ledger,
                                   elo |-> ratings, outcome |-> "rejected",
                                   reply |-> writes.error]
                             ELSE [sessions |-> mapDelete(sessions, q.chatId),
                                   matches |-> writes.matches,
                                   elo |-> writes.elo,
                                   outcome |-> "resolved",
                                   reply |-> "match_recorded"]
               ELSE kept("null")

\* handlePlayerSelection(callbackQuery), the whole handler
handlePlayerSelectionQuery(q) ==
  /\ Len(matches) < MaxSessionMatches
  /\ LET result == callbackResult(q, matchCreationState, matches, elo,
                                  dateNow, clock)
     IN  /\ matchCreationState' = result.sessions
         /\ matches' = result.matches
         /\ elo' = result.elo
         /\ lastOp' = [op |-> "handlePlayerSelection",
                       outcome |-> result.outcome, reply |-> result.reply,
                       chatId |-> q.chatId, userId |-> q.userId,
                       data |-> q.data]
  /\ UNCHANGED <<clock, seasonStartElo, chatId, seasonDocs, runs, procs, fnIn,
                 fnOut, dateNow, playSession, playButtons, playCalls, recordCalls>>

\* minutes pass with no message arriving
passTime(d) ==
  /\ dateNow + d <= MaxMinutes
  /\ dateNow' = dateNow + d
  /\ UNCHANGED <<clock, elo, seasonStartElo, chatId, matches, seasonDocs,
                 lastOp, runs, procs, fnIn, fnOut, matchCreationState,
                 playSession, playButtons, playCalls, recordCalls>>

(* ----------------------- services/seasonService.js --------------------- *)
\* updateSeasonStats(match) run from call to return with nothing in between
updateSeasonStats(i) ==
  /\ i \in 1..Len(matches)
  /\ LET match == matches[i]
         g == getSeasonStats(seasonDocs, match.season)
         loop == upsertLoop(match.winners \o match.losers, 1, matches, elo,
                            seasonStartElo, g.docs[g.at].playerStats,
                            match.season)
     IN  /\ seasonStartElo' = loop.sse
         /\ seasonDocs' = [g.docs EXCEPT ![g.at].playerStats =
                             saveSeasonDoc(@, withTotalPoints(loop.playerStats), 1)]
         /\ lastOp' = [op |-> "updateSeasonStats", outcome |-> "resolved",
                       match |-> i]
  /\ UNCHANGED <<clock, elo, chatId, matches, runs, procs, fnIn, fnOut,
                 matchCreationState, dateNow,
                 playSession, playButtons, playCalls, recordCalls>>

getSeasonLeaderboard(season) ==
  /\ LET g == getSeasonStats(seasonDocs, season)
     IN  /\ seasonDocs' = g.docs
         /\ lastOp' = [op |-> "getSeasonLeaderboard", outcome |-> "resolved",
                       season |-> season,
                       summary |-> leaderboardResult(season,
                                     getPlayerStatsArray(g.docs[g.at])).summary,
                       categories |-> leaderboardResult(season,
                                     getPlayerStatsArray(g.docs[g.at])).categories]
  /\ UNCHANGED <<clock, elo, seasonStartElo, chatId, matches, runs, procs, fnIn, fnOut,
                 matchCreationState, dateNow,
                 playSession, playButtons, playCalls, recordCalls>>

(* -------------------- seasonTransitionService.js ----------------------- *)
\* getSeasonWinners(season) called on its own, the store answering
getSeasonWinnersCall(season) ==
  /\ LET g == getSeasonStats(seasonDocs, season)
     IN  /\ seasonDocs' = g.docs
         /\ lastOp' = [op |-> "getSeasonWinners", outcome |-> "resolved",
                       season |-> season,
                       winners |-> getSeasonWinners(
                                     leaderboardResult(season,
                                       getPlayerStatsArray(g.docs[g.at])).summary)]
  /\ UNCHANGED <<clock, elo, seasonStartElo, chatId, matches, runs, procs, fnIn, fnOut,
                 matchCreationState, dateNow,
                 playSession, playButtons, playCalls, recordCalls>>

\* where the store fails during one run of the transition
Faults == {"none", "leaderboard", "seasonSave", "ensureFind", "playersFind"}

createNewSeasonAndNotify(fault, sendFail) ==
  LET previousSeason == getPreviousSeason(clock)
      newSeason == getCurrentSeason(clock)
      \* getSeasonWinners: a failing leaderboard read is caught, winners = []
      g == getSeasonStats(seasonDocs, previousSeason)
      docs1 == IF fault = "leaderboard" THEN seasonDocs ELSE g.docs
      winners == IF fault = "leaderboard" THEN <<>>
                 ELSE getSeasonWinners(leaderboardSummary(
                        getPlayerStatsArray(g.docs[g.at])))
      \* new Season({ season: newSeason }).save()
      docs2 == IF fault = "seasonSave" THEN docs1
               ELSE Append(docs1, [season |-> newSeason, playerStats |-> <<>>])
      sse2 == IF fault \in {"seasonSave", "ensureFind"} THEN seasonStartElo
              ELSE ensureAllPlayersSeasonStartElo(seasonStartElo, elo, 1, newSeason)
      loop == IF fault \in {"seasonSave", "playersFind"}
              THEN [messages |-> <<>>, threw |-> FALSE]
              ELSE notifyLoop(chatId, 1, winners, sendFail, <<>>)
  IN  /\ runs < MaxRuns
      /\ runs' = runs + 1
      /\ fault \in {"seasonSave", "playersFind"} => sendFail = {}
      /\ Cardinality(sendFail) <= 1
      /\ seasonDocs' = docs2
      /\ seasonStartElo' = sse2
      \* every error that reaches the outer try is caught and logged
      /\ lastOp' = [op |-> "createNewSeasonAndNotify", outcome |-> "resolved",
                    fault |-> fault, sendFail |-> sendFail,
                    newSeason |-> newSeason, messages |-> loop.messages]
      /\ UNCHANGED <<clock, elo, chatId, matches, procs, fnIn, fnOut,
                 matchCreationState, dateNow,
                 playSession, playButtons, playCalls, recordCalls>>

\* the wall clock passes a month boundary
tick ==
  /\ ticks < MaxTicks
  /\ clock' = getNextSeason(clock)
  /\ UNCHANGED <<elo, seasonStartElo, chatId, matches, seasonDocs, lastOp,
                 runs, procs, fnIn, fnOut,
                 matchCreationState, dateNow,
                 playSession, playButtons, playCalls, recordCalls>>

\* the submissions in which the partners have adjacent ids
PairedSubmissions == {sub \in Submissions : sub.team1[2] = sub.team1[1] + 1}

(* ---------------- match recording and season aggregation --------------- *)
\* calls run one at a time, within one season
Next ==
  \/ \E sub \in PairedSubmissions : recordMatch(sub)
  \/ \E i \in 1..MaxMatches : updateSeasonStats(i)
  \/ getSeasonLeaderboard(getCurrentSeason(clock))

Spec == Init /\ [][Next]_vars

(* ------------------------- season transition --------------------------- *)
\* calls run one at a time, across month boundaries
NextTransition ==
  \/ \E sub \in PairedSubmissions : recordMatch(sub)
  \/ \E i \in 1..MaxMatches : updateSeasonStats(i)
  \/ \E fault \in Faults :
       \E sendFail \in SUBSET {p \in Players : chatId[p]} :
         createNewSeasonAndNotify(fault, sendFail)
  \/ tick

SpecTransition == Init /\ [][NextTransition]_vars

(* --------------- updateSeasonStats calls in flight together ------------ *)
\* each call advances by one store operation at a time; the synchronous
\* code after an await runs with the operation that resolved it
matchOf(c) == matches[procs[c].match]
allPlayersOf(c) == matchOf(c).winners \o matchOf(c).losers
playerOf(c) == allPlayersOf(c)[procs[c].k]

procStep(c, new) ==
  /\ procs' = [procs EXCEPT ![c] = new]
  /\ UNCHANGED <<clock, elo, chatId, matches, runs, fnIn, fnOut,
                 matchCreationState, dateNow,
                 playSession, playButtons, playCalls, recordCalls>>

\* updateSeasonStats(match) is called: Season.findOne is issued (line 13)
usCall(c, i) ==
  /\ procs[c].pc = "idle"
  /\ i \in 1..Len(matches)
  /\ \A d \in Procs \ {c} : procs[d].match # i
  /\ procStep(c, [Idle EXCEPT !.pc = "findOne", !.match = i])
  /\ UNCHANGED <<seasonStartElo, seasonDocs, lastOp>>

\* Season.findOne resolves (lines 13-15)
usFindOne(c) ==
  /\ procs[c].pc = "findOne"
  /\ LET at == findOne(seasonDocs, matchOf(c).season)
     IN  procStep(c, IF at # 0
                     THEN [procs[c] EXCEPT !.pc = "find", !.at = at,
                             !.stats = seasonDocs[at].playerStats]
                     ELSE [procs[c] EXCEPT !.pc = "create"])
  /\ UNCHANGED <<seasonStartElo, seasonDocs, lastOp>>

\* new Season({ season }).save() (lines 17-18)
usCreate(c) ==
  /\ procs[c].pc = "create"
  /\ seasonDocs' = Append(seasonDocs,
                          [season |-> matchOf(c).season, playerStats |-> <<>>])
  /\ procStep(c, [procs[c] EXCEPT !.pc = "find", !.at = Len(seasonDocs) + 1])
  /\ UNCHANGED <<seasonStartElo, lastOp>>

\* Match.find for the current player of the loop (lines 179-182)
usFind(c) ==
  /\ procs[c].pc = "find"
  /\ procStep(c, [procs[c] EXCEPT !.pc = "ensureFind",
                    !.playerMatches =
                       findMatches(matches, matchOf(c).season, playerOf(c))])
  /\ UNCHANGED <<seasonStartElo, seasonDocs, lastOp>>

\* ensureSeasonStartElo: Player.findById resolves (lines 143-153)
usEnsureFind(c) ==
  /\ procs[c].pc = "ensureFind"
  /\ procStep(c, IF matchOf(c).season \in DOMAIN seasonStartElo[playerOf(c)]
                 THEN [procs[c] EXCEPT !.pc = "findById"]
                 ELSE [procs[c] EXCEPT !.pc = "ensureSave",
                         !.playerElo = elo[playerOf(c)]])
  /\ UNCHANGED <<seasonStartElo, seasonDocs, lastOp>>

\* ensureSeasonStartElo: player.save() writes the entry set on the copy
\* that was read (line 154)
usEnsureSave(c) ==
  /\ procs[c].pc = "ensureSave"
  /\ seasonStartElo' =
       [seasonStartElo EXCEPT ![playerOf(c)] =
          [s \in (DOMAIN @) \cup {matchOf(c).season} |->
             IF s = matchOf(c).season THEN procs[c].playerElo ELSE @[s]]]
  /\ procStep(c, [procs[c] EXCEPT !.pc = "findById"])
  /\ UNCHANGED <<seasonDocs, lastOp>>

\* Player.findById resolves; the raw fields are computed and upserted into
\* the local document (lines 198-212); after the fourth player the points
\* are recomputed over the local document (lines 215-222)
usFindById(c) ==
  /\ procs[c].pc = "findById"
  /\ LET upserted == addOrUpdatePlayerStats(procs[c].stats, playerOf(c),
                       rawStats(procs[c].playerMatches, elo, seasonStartElo,
                                playerOf(c), matchOf(c).season))
     IN  procStep(c, IF procs[c].k < Len(allPlayersOf(c))
                     THEN [procs[c] EXCEPT !.pc = "find", !.k = @ + 1,
                             !.stats = upserted]
                     ELSE [procs[c] EXCEPT !.pc = "save",
                             !.stats = withTotalPoints(upserted)])
  /\ UNCHANGED <<seasonStartElo, seasonDocs, lastOp>>

\* seasonDoc.save() and return (lines 224-225)
usSave(c) ==
  /\ procs[c].pc = "save"
  /\ seasonDocs' = [seasonDocs EXCEPT ![procs[c].at].playerStats =
                      saveSeasonDoc(@, procs[c].stats, 1)]
  /\ lastOp' = [op |-> "updateSeasonStats", outcome |-> "resolved",
                match |-> procs[c].match]
  /\ procStep(c, [procs[c] EXCEPT !.pc = "done"])
  /\ UNCHANGED seasonStartElo

NextConcurrent ==
  \/ \E sub \in PairedSubmissions : recordMatch(sub)
  \/ \E c \in Procs : \E i \in 1..MaxMatches : usCall(c, i)
  \/ \E c \in Procs : usFindOne(c)
  \/ \E c \in Procs : usCreate(c)
  \/ \E c \in Procs : usFind(c)
  \/ \E c \in Procs : usEnsureFind(c)
  \/ \E c \in Procs : usEnsureSave(c)
  \/ \E c \in Procs : usFindById(c)
  \/ \E c \in Procs : usSave(c)

SpecConcurrent == Init /\ [][NextConcurrent]_vars

(* ------------------- calculateCategoryPoints on its own ---------------- *)
\* the category values tried and the lists built from them
RankValues == {0, 40, 60, 100}
ValueLists == UNION {[1..n -> RankValues] : n \in 0..MaxLen}
NotRun == [done |-> FALSE]

\* the playerStats array holding the values vs in the given category
statsOfValues(vs, category) ==
  [i \in 1..Len(vs) |->
     [f \in {"playerId", category} |-> IF f = "playerId" THEN i ELSE vs[i]]]

InitRanking ==
  /\ InitStore
  /\ fnIn \in [values : ValueLists, category : Range(Categories)]
  /\ fnOut = NotRun

applyCalculateCategoryPoints ==
  /\ fnOut = NotRun
  /\ fnOut' = [done |-> TRUE,
               result |-> calculateCategoryPoints(
                            statsOfValues(fnIn.values, fnIn.category),
                            fnIn.category)]
  /\ UNCHANGED <<clock, elo, seasonStartElo, chatId, matches, seasonDocs,
                 lastOp, runs, procs, fnIn,
                 matchCreationState, dateNow,
                 playSession, playButtons, playCalls, recordCalls>>

NextRanking == applyCalculateCategoryPoints

SpecRanking == InitRanking /\ [][NextRanking]_vars

(* ------------------- the eloGains computation on its own --------------- *)
\* the Elo values tried as season-start Elo and as current Elo
EloValues == {0, 15, 16, 968, 984, 1000, 1016, 1032}

\* one player whose seasonStartElo map holds fnIn.start for the season and
\* whose elo is fnIn.current
InitEloGains ==
  /\ InitStore
  /\ fnIn \in [start : EloValues, current : EloValues]
  /\ fnOut = NotRun

\* lines 198-200 of updateSeasonStats for that player
applyEloGains ==
  /\ fnOut = NotRun
  /\ fnOut' = [done |-> TRUE,
               result |-> rawStats(<<>>,
                            [p \in Players |-> fnIn.current],
                            [p \in Players |-> (StartClock :> fnIn.start)],
                            1, StartClock).eloGains]
  /\ UNCHANGED <<clock, elo, seasonStartElo, chatId, matches, seasonDocs,
                 lastOp, runs, procs, fnIn,
                 matchCreationState, dateNow,
                 playSession, playButtons, playCalls, recordCalls>>

NextEloGains == applyEloGains

SpecEloGains == InitEloGains /\ [][NextEloGains]_vars

(* -------------- updateSeasonStats over a ledger already stored --------- *)
\* a Match document as the schema stores it: what recordMatch saves for the
\* submission at the given ratings, with the isDryWin field as given
matchDocument(sub, ratings, n, now, dry) ==
  LET winners == IF sub.winnerTeam = 1 THEN sub.team1 ELSE sub.team2
      losers == IF sub.winnerTeam = 1 THEN sub.team2 ELSE sub.team1
  IN  [players |-> sub.team1 \o sub.team2,
       winners |-> winners,
       losers |-> losers,
       season |-> getCurrentSeason(now),
       eloChanges |-> calculateTeamEloChanges(
                        <<ratings[winners[1]], ratings[winners[2]]>>,
                        <<ratings[losers[1]], ratings[losers[2]]>>),
       playedAt |-> n,
       isDryWin |-> dry]

\* Player.elo after the match document's eloChanges were applied
ratingsAfter(m, ratings) ==
  [p \in Players |->
     IF \E i \in 1..2 : m.winners[i] = p
     THEN ratings[p] + m.eloChanges.winners[CHOOSE i \in 1..2 : m.winners[i] = p]
     ELSE IF \E i \in 1..2 : m.losers[i] = p
     THEN ratings[p] + m.eloChanges.losers[CHOOSE i \in 1..2 : m.losers[i] = p]
     ELSE ratings[p]]

\* the Match collection and the ratings after the given submissions were
\* recorded one after the other in one season
RECURSIVE storedLedger(_, _, _, _)
storedLedger(entries, k, ratings, ledger) ==
  IF k > Len(entries) THEN [elo |-> ratings, matches |-> ledger]
  ELSE LET m == matchDocument(entries[k].sub, ratings, k, StartClock,
                              entries[k].dry)
       IN  storedLedger(entries, k + 1, ratingsAfter(m, ratings),
                        Append(ledger, m))

LedgerEntries == [sub : PairedSubmissions, dry : BOOLEAN]
Ledgers == UNION {[1..n -> LedgerEntries] : n \in 0..MaxMatches}

\* the store holds a ledger of earlier matches, dry wins among them, that
\* has not been aggregated yet
InitAggregate ==
  /\ \E entries \in Ledgers :
       /\ elo = storedLedger(entries, 1, [p \in Players |-> DefaultElo], <<>>).elo
       /\ matches = storedLedger(entries, 1, [p \in Players |-> DefaultElo], <<>>).matches
  /\ clock = StartClock
  /\ seasonStartElo = [p \in Players |-> <<>>]
  /\ chatId = [p \in Players |-> p # NumPlayers]
  /\ seasonDocs = <<>>
  /\ lastOp = NoOp
  /\ runs = 0
  /\ procs = [c \in Procs |-> Idle]
  /\ fnIn = <<>>
  /\ fnOut = <<>>
  /\ matchCreationState = <<>>
  /\ dateNow = 0
  /\ playSession = NoPlaySession
  /\ playButtons = NoPlayButtons
  /\ playCalls = [c \in PlayCalls |-> IdleCall]
  /\ recordCalls = [c \in RecordCalls |-> IdleRecord]

NextAggregate == \E i \in 1..MaxMatches : updateSeasonStats(i)

SpecAggregate == InitAggregate /\ [][NextAggregate]_vars

(* ----------------------- calculateWinStreak on its own ----------------- *)
\* the player's results in chronological order (TRUE = won) and the order
\* in which the matches are passed: position k holds the match played at
\* time order[k]
StreakInputs ==
  UNION {[results : [1..n -> BOOLEAN],
          order : {f \in [1..n -> 1..n] : \A a, b \in 1..n : f[a] = f[b] => a = b}] :
           n \in 0..MaxLen}

\* the matches array passed to calculateWinStreak for player 1
matchesOfResults(results, order) ==
  [k \in 1..Len(order) |->
     [winners |-> IF results[order[k]] THEN <<1, 2>> ELSE <<3, 4>>,
      losers |-> IF results[order[k]] THEN <<3, 4>> ELSE <<1, 2>>,
      playedAt |-> order[k]]]

InitWinStreak ==
  /\ InitStore
  /\ fnIn \in StreakInputs
  /\ fnOut = NotRun

applyCalculateWinStreak ==
  /\ fnOut = NotRun
  /\ fnOut' = [done |-> TRUE,
               result |-> calculateWinStreak(
                            matchesOfResults(fnIn.results, fnIn.order), 1)]
  /\ UNCHANGED <<clock, elo, seasonStartElo, chatId, matches, seasonDocs,
                 lastOp, runs, procs, fnIn,
                 matchCreationState, dateNow,
                 playSession, playButtons, playCalls, recordCalls>>

NextWinStreak == applyCalculateWinStreak

SpecWinStreak == InitWinStreak /\ [][NextWinStreak]_vars

(* --------------------- addOrUpdatePlayerStats on its own --------------- *)
MaxEntries == 2
UpsertIds == 1..3

\* an entry already stored for player p, every field set and different
storedEntry(p, v) ==
  [playerId |-> p, eloGains |-> v, matchesPlayed |-> v + 1, dryWins |-> v + 2,
   totalWins |-> v + 3, longestStreak |-> v + 4, totalPoints |-> v + 5]

\* the playerStats Maps tried: up to MaxEntries entries under distinct keys
StoredMaps ==
  UNION {{[i \in 1..n |-> storedEntry(ids[i], vs[i])] :
            ids \in {f \in [1..n -> UpsertIds] :
                       \A a, b \in 1..n : f[a] = f[b] => a = b},
            vs \in [1..n -> {1, 7}]} : n \in 0..MaxEntries}

\* the stats objects tried: any set of the numeric fields, each set to 20
StatsObjects == UNION {[F -> {20}] : F \in SUBSET StatFields}

InitUpsert ==
  /\ InitStore
  /\ fnIn \in [playerStats : StoredMaps, playerId : UpsertIds,
               stats : StatsObjects]
  /\ fnOut = NotRun

applyAddOrUpdatePlayerStats ==
  /\ fnOut = NotRun
  /\ fnOut' = [done |-> TRUE,
               result |-> addOrUpdatePlayerStats(fnIn.playerStats,
                                                 fnIn.playerId, fnIn.stats)]
  /\ UNCHANGED <<clock, elo, seasonStartElo, chatId, matches, seasonDocs,
                 lastOp, runs, procs, fnIn,
                 matchCreationState, dateNow,
                 playSession, playButtons, playCalls, recordCalls>>

NextUpsert == applyAddOrUpdatePlayerStats

SpecUpsert == InitUpsert /\ [][NextUpsert]_vars

(* ------------------- recordMatch with any kind of submission ----------- *)
\* the submissions one mistake away from a well-formed one: a team of one
\* or of three, an unregistered username, a player named twice
MalformedSubmissions ==
  UNION {
    {[sub EXCEPT !.team1 = <<sub.team1[1]>>],
     [sub EXCEPT !.team2 = <<sub.team2[2]>>],
     [sub EXCEPT !.team1 = Append(sub.team1, sub.team2[1])],
     [sub EXCEPT !.team2 = Append(sub.team2, Unregistered)],
     [sub EXCEPT !.team1 = <<sub.team1[1]>>, !.team2 = <<sub.team1[1], Unregistered>>],
     [sub EXCEPT !.team1 = <<sub.team1[1], sub.team1[1]>>,
                 !.team2 = <<sub.team2[1], sub.team2[1]>>]}
    \cup {[sub EXCEPT !.team1[i] = Unregistered] : i \in 1..2}
    \cup {[sub EXCEPT !.team2[i] = Unregistered] : i \in 1..2}
    \cup {[sub EXCEPT !.team1[i] = sub.team2[j]] : i, j \in 1..2}
    \cup {[sub EXCEPT !.team2[i] = sub.team1[j]] : i, j \in 1..2}
    \cup {[sub EXCEPT !.team1[2] = sub.team1[1]],
          [sub EXCEPT !.team2[1] = sub.team2[2]]}
    : sub \in PairedSubmissions}

NextValidation ==
  \/ \E sub \in PairedSubmissions \cup MalformedSubmissions : recordMatch(sub)
  \/ tick

SpecValidation == Init /\ [][NextValidation]_vars

(* ------------------- the dry-win answer of match creation -------------- *)
\* the selections a chat session can hold when the dry-win question is
\* answered: two winners, then two losers picked among the other players
Selections ==
  {[winners |-> IF sub.winnerTeam = 1 THEN sub.team1 ELSE sub.team2,
    losers |-> IF sub.winnerTeam = 1 THEN sub.team2 ELSE sub.team1] :
     sub \in PairedSubmissions}

NextDryWin ==
  \/ \E selection \in Selections :
       \E data \in {"dry_win_yes", "dry_win_no"} :
         handlePlayerSelection(selection, data)
  \/ \E i \in 1..MaxMatches : updateSeasonStats(i)

SpecDryWin == Init /\ [][NextDryWin]_vars

(* -------------------------- detectDryWin on its own -------------------- *)
\* the Elo changes a loser can be given with K_FACTOR = 32
LoserChanges == (0 - K_FACTOR)..0

InitDetectDryWin ==
  /\ InitStore
  /\ fnIn \in [losers : [1..2 -> LoserChanges]]
  /\ fnOut = NotRun

applyDetectDryWin ==
  /\ fnOut = NotRun
  /\ fnOut' = [done |-> TRUE,
               result |-> detectDryWin(
                            [eloChanges |-> [losers |-> fnIn.losers]])]
  /\ UNCHANGED <<clock, elo, seasonStartElo, chatId, matches, seasonDocs,
                 lastOp, runs, procs, fnIn,
                 matchCreationState, dateNow,
                 playSession, playButtons, playCalls, recordCalls>>

NextDetectDryWin == applyDetectDryWin

SpecDetectDryWin == InitDetectDryWin /\ [][NextDetectDryWin]_vars

(* ----------------------- calculateTotalPoints on its own --------------- *)
\* the playerStats arrays tried: up to MaxEntries players, each of the five
\* category values 0 or 1, totalPoints not computed yet
StatArrays ==
  UNION {{[i \in 1..n |->
             [f \in StatFields \cup {"playerId"} |->
                IF f = "playerId" THEN i
                ELSE IF f = "totalPoints" THEN 0
                ELSE vals[i][f]]] :
            vals \in [1..n -> [Range(Categories) -> {0, 1}]]} :
         n \in 0..MaxEntries}

InitTotalPoints ==
  /\ InitStore
  /\ fnIn \in [playerStats : StatArrays]
  /\ fnOut = NotRun

applyCalculateTotalPoints ==
  /\ fnOut = NotRun
  /\ fnOut' = [done |-> TRUE,
               result |-> calculateTotalPoints(fnIn.playerStats)]
  /\ UNCHANGED <<clock, elo, seasonStartElo, chatId, matches, seasonDocs,
                 lastOp, runs, procs, fnIn,
                 matchCreationState, dateNow,
                 playSession, playButtons, playCalls, recordCalls>>

NextTotalPoints == applyCalculateTotalPoints

SpecTotalPoints == InitTotalPoints /\ [][NextTotalPoints]_vars

(* ---------------- getNextSeason and getPreviousSeason on their own ----- *)
\* the wall-clock years tried
Years == 2020..2029

InitSeasonIds ==
  /\ InitStore
  /\ fnIn \in [y : Years, m : 1..12]
  /\ fnOut = NotRun

\* both functions called while new Date() is in month fnIn.m of year fnIn.y;
\* the results are the strings returned
applySeasonIds ==
  /\ fnOut = NotRun
  /\ fnOut' = [done |-> TRUE,
               next |-> seasonText(getNextSeason(fnIn)),
               previous |-> seasonText(getPreviousSeason(fnIn))]
  /\ UNCHANGED <<clock, elo, seasonStartElo, chatId, matches, seasonDocs,
                 lastOp, runs, procs, fnIn,
                 matchCreationState, dateNow,
                 playSession, playButtons, playCalls, recordCalls>>

NextSeasonIds == applySeasonIds

SpecSeasonIds == InitSeasonIds /\ [][NextSeasonIds]_vars

(* ------------------- leaderboard and winners of a season --------------- *)
\* the seasons asked for: the current month and the one before it
AskedSeasons == {getCurrentSeason(StartClock), getPreviousSeason(StartClock)}

NextLeaderboard ==
  \/ \E sub \in PairedSubmissions : recordMatch(sub)
  \/ updateSeasonStats(Len(matches))
  \/ \E season \in AskedSeasons : getSeasonLeaderboard(season)
  \/ \E season \in AskedSeasons : getSeasonWinnersCall(season)

SpecLeaderboard == Init /\ [][NextLeaderboard]_vars

(* ------------------- calculateTeamEloChanges on its own ---------------- *)
\* two teams of two ratings and the number of the winning team
InitTeamElo ==
  /\ InitStore
  /\ fnIn \in [team1 : EloValues \X EloValues, team2 : EloValues \X EloValues,
               winnerTeam : {1, 2}]
  /\ fnOut = NotRun

applyCalculateTeamEloChanges ==
  /\ fnOut = NotRun
  /\ fnOut' = [done |-> TRUE,
               result |-> calculateTeamEloChangesOf(fnIn.team1, fnIn.team2,
                                                   fnIn.winnerTeam)]
  /\ UNCHANGED <<clock, elo, seasonStartElo, chatId, matches, seasonDocs,
                 lastOp, runs, procs, fnIn,
                 matchCreationState, dateNow,
                 playSession, playButtons, playCalls, recordCalls>>

NextTeamElo == applyCalculateTeamEloChanges

SpecTeamElo == InitTeamElo /\ [][NextTeamElo]_vars

(* ---------------- recordMatch on ratings far from the default ---------- *)
\* ratings five players hold after 0, 317, 318 and 319 matches in which one
\* of them lost every time, up to the naming of the players (the total stays
\* 5000); players beyond the fifth are at the default.  The ledger of those
\* earlier matches is left out: recordMatch reads the ratings only.
RatingsReached ==
  {[p \in Players |-> IF p <= 5 THEN r[p] ELSE DefaultElo] :
     r \in {<<1000, 1000, 1000, 1000, 1000>>,
            <<2, 1312, 1120, 1307, 1259>>,
            <<1, 1311, 1121, 1308, 1259>>,
            <<0, 1310, 1122, 1309, 1259>>}}

InitEloFloor ==
  /\ clock = StartClock
  /\ elo \in RatingsReached
  /\ seasonStartElo = [p \in Players |-> <<>>]
  /\ chatId = [p \in Players |-> p # NumPlayers]
  /\ matches = <<>>
  /\ seasonDocs = <<>>
  /\ lastOp = NoOp
  /\ runs = 0
  /\ procs = [c \in Procs |-> Idle]
  /\ fnIn = <<>>
  /\ fnOut = <<>>
  /\ matchCreationState = <<>>
  /\ dateNow = 0
  /\ playSession = NoPlaySession
  /\ playButtons = NoPlayButtons
  /\ playCalls = [c \in PlayCalls |-> IdleCall]
  /\ recordCalls = [c \in RecordCalls |-> IdleRecord]

NextEloFloor == \E sub \in Submissions : recordMatch(sub)

SpecEloFloor == InitEloFloor /\ [][NextEloFloor]_vars

(* --------------------- match creation sessions ------------------------- *)
\* /match commands and button callbacks of two users in one chat, one
\* handler at a time, with minutes passing in between
NextSession ==
  \/ \E chat \in Chats : \E user \in Users : handleMatch(chat, user)
  \/ \E q \in CallbackQueries : handlePlayerSelectionQuery(q)
  \/ \E d \in {1, 5} : passTime(d)

SpecSession == Init /\ [][NextSession]_vars

(* ------------------------------ play sessions -------------------------- *)
\* /play and the play_yes_ / play_no_ / cancel_play_session callbacks.  A
\* handler runs up to its next await in one step; consecutive awaits with
\* no read or write of playSession between them are one step.
usersWithChatId == SelectSeq([i \in 1..NumPlayers |-> i], LAMBDA p : chatId[p])

without(list, u) == SelectSeq(list, LAMBDA x : x # u)
includes(list, u) == \E i \in 1..Len(list) : list[i] = u

\* the loops of other handlers that iterate the array playSession.accepted:
\* a push reaches them, an assignment of a new array detaches them
pushed(calls, u) ==
  [c \in PlayCalls |->
     IF calls[c].live THEN [calls[c] EXCEPT !.loopArray = Append(@, u)]
     ELSE calls[c]]
detached(calls) == [c \in PlayCalls |-> [calls[c] EXCEPT !.live = FALSE]]

\* handlePlay(bot, msg) up to `await playerService.getAllPlayers()` (lines
\* 443-464); the reply of the early return carries the cancel button
handlePlayCall(c, initiator) ==
  /\ freeCall(c)
  /\ chatId[initiator]
  /\ playSession.active \/ playButtons.rounds < MaxPlays
  /\ IF playSession.active
     THEN /\ lastOp' = [op |-> "handlePlay", reply |-> "already_in_progress",
                        username |-> initiator, invited |-> <<>>]
          /\ playButtons' = [playButtons EXCEPT !.cancel = TRUE]
          /\ UNCHANGED <<playSession, playCalls>>
     ELSE /\ playSession' = [active |-> TRUE, invited |-> <<>>,
                             accepted |-> <<>>, declined |-> <<>>]
          /\ playCalls' = [detached(playCalls) EXCEPT
                             ![c] = [IdleCall EXCEPT !.pc = "getAllPlayers",
                                                     !.username = initiator]]
          /\ UNCHANGED <<lastOp, playButtons>>
  /\ UNCHANGED <<clock, elo, seasonStartElo, chatId, matches, seasonDocs, runs,
                 procs, fnIn, fnOut, matchCreationState, dateNow, recordCalls>>

\* handlePlay from the resolution of getAllPlayers to its return (lines
\* 465-489): the lists are set and the invitations sent
handlePlayInvite(c) ==
  /\ playCalls[c].pc = "getAllPlayers"
  /\ LET initiator == playCalls[c].username
         invited == without(usersWithChatId, initiator)
     IN  /\ playSession' = [playSession EXCEPT !.invited = invited,
                                               !.accepted = <<initiator>>]
         /\ playButtons' = [playButtons EXCEPT
                              !.invitations =
                                [p \in Players |->
                                   IF includes(invited, p) THEN @[p] + 1 ELSE @[p]],
                              !.rounds = @ + 1]
         /\ lastOp' = [op |-> "handlePlay", reply |-> "invited",
                       username |-> initiator, invited |-> invited]
         /\ playCalls' = [detached(playCalls) EXCEPT ![c] = IdleCall]
  /\ UNCHANGED <<clock, elo, seasonStartElo, chatId, matches, seasonDocs, runs,
                 procs, fnIn, fnOut, matchCreationState, dateNow, recordCalls>>

\* callback play_yes_<username> / play_no_<username> up to its first await
\* (index.js lines 154-163, 165-168): the button pressed is one sent to
\* that user
playAnswer(c, answer, username) ==
  /\ freeCall(c)
  /\ playButtons.invitations[username] > 0
  /\ playButtons' = [playButtons EXCEPT !.invitations[username] = @ - 1]
  /\ IF ~playSession.active
     THEN /\ lastOp' = [op |-> "play_callback", outcome |-> "ignored",
                        scheduled |-> <<>>]
          /\ UNCHANGED <<playSession, playCalls>>
     ELSE IF answer = "yes"
     THEN /\ playSession' =
               [playSession EXCEPT
                  !.accepted = IF includes(@, username) THEN @
                               ELSE Append(@, username),
                  !.declined = without(@, username)]
          /\ playCalls' =
               [(IF includes(playSession.accepted, username) THEN playCalls
                 ELSE pushed(playCalls, username)) EXCEPT
                  ![c] = [IdleCall EXCEPT !.pc = "status"]]
          /\ UNCHANGED lastOp
     ELSE /\ playSession' =
               [playSession EXCEPT
                  !.declined = IF includes(@, username) THEN @
                               ELSE Append(@, username),
                  !.accepted = without(@, username)]
          /\ playCalls' = [detached(playCalls) EXCEPT
                             ![c] = [IdleCall EXCEPT !.pc = "status"]]
          /\ UNCHANGED lastOp
  /\ UNCHANGED <<clock, elo, seasonStartElo, chatId, matches, seasonDocs, runs,
                 procs, fnIn, fnOut, matchCreationState, dateNow, recordCalls>>

\* the callback after editMessageText and sendPlayStatusUpdate (index.js
\* lines 175-179): the length test, and the start of the loop over
\* playSession.accepted
playStatusSent(c) ==
  /\ playCalls[c].pc = "status"
  /\ IF Len(playSession.accepted) = 4
     THEN /\ playCalls' = [playCalls EXCEPT
                             ![c] = [@ EXCEPT !.pc = "notify",
                                              !.loopArray = playSession.accepted,
                                              !.live = TRUE]]
          /\ UNCHANGED lastOp
     ELSE /\ playCalls' = [playCalls EXCEPT ![c] = IdleCall]
          /\ lastOp' = [op |-> "play_callback", outcome |-> "answered",
                        scheduled |-> <<>>]
  /\ UNCHANGED <<clock, elo, seasonStartElo, chatId, matches, seasonDocs, runs,
                 procs, fnIn, fnOut, matchCreationState, dateNow, playSession,
                 playButtons, recordCalls>>

\* the loop has sent the match-scheduled message to every element of the
\* array that has a chatId; the session is closed (index.js lines 180-188)
playScheduled(c) ==
  /\ playCalls[c].pc = "notify"
  /\ playSession' = [playSession EXCEPT !.active = FALSE]
  /\ lastOp' = [op |-> "play_callback", outcome |-> "scheduled",
                scheduled |-> SelectSeq(playCalls[c].loopArray,
                                        LAMBDA p : chatId[p])]
  /\ playCalls' = [playCalls EXCEPT ![c] = IdleCall]
  /\ UNCHANGED <<clock, elo, seasonStartElo, chatId, matches, seasonDocs, runs,
                 procs, fnIn, fnOut, matchCreationState, dateNow, playButtons, recordCalls>>

\* callback cancel_play_session (index.js lines 140-152)
cancelPlaySession ==
  /\ playButtons.cancel
  /\ playButtons' = [playButtons EXCEPT !.cancel = FALSE]
  /\ playSession' = NoPlaySession
  /\ playCalls' = detached(playCalls)
  /\ lastOp' = [op |-> "cancel_play_session", outcome |-> "cancelled",
                scheduled |-> <<>>]
  /\ UNCHANGED <<clock, elo, seasonStartElo, chatId, matches, seasonDocs, runs,
                 procs, fnIn, fnOut, matchCreationState, dateNow, recordCalls>>

\* the user who sends /play
PlayInitiators == {NumPlayers}

\* what an earlier play session leaves behind: player 1 invited the others,
\* players 2, 3 and 4 agreed and the match was scheduled; the invitation of
\* the last player was never answered
EarlierPlaySession ==
  [active |-> FALSE,
   invited |-> [i \in 1..(NumPlayers - 1) |-> i + 1],
   accepted |-> <<1, 2, 3, 4>>, declined |-> <<>>]
EarlierPlayButtons ==
  [invitations |-> [p \in Players |-> IF p >= 5 THEN 1 ELSE 0],
   cancel |-> FALSE, rounds |-> 0]

\* every registered player has a chatId, as /register stores msg.chat.id;
\* the bot has just started or has run one play session
InitPlay ==
  /\ clock = StartClock
  /\ elo = [p \in Players |-> DefaultElo]
  /\ seasonStartElo = [p \in Players |-> <<>>]
  /\ chatId = [p \in Players |-> TRUE]
  /\ matches = <<>>
  /\ seasonDocs = <<>>
  /\ lastOp = NoOp
  /\ runs = 0
  /\ procs = [c \in Procs |-> Idle]
  /\ fnIn = <<>>
  /\ fnOut = <<>>
  /\ matchCreationState = <<>>
  /\ dateNow = 0
  /\ \E start \in {<<NoPlaySession, NoPlayButtons>>,
                     <<EarlierPlaySession, EarlierPlayButtons>>} :
       /\ playSession = start[1]
       /\ playButtons = start[2]
  /\ playCalls = [c \in PlayCalls |-> IdleCall]
  /\ recordCalls = [c \in RecordCalls |-> IdleRecord]

NextPlay ==
  \/ \E c \in PlayCalls : \E initiator \in PlayInitiators :
       handlePlayCall(c, initiator)
  \/ \E c \in PlayCalls : handlePlayInvite(c)
  \/ \E c \in PlayCalls : \E answer \in {"yes", "no"} :
       \E username \in Players : playAnswer(c, answer, username)
  \/ \E c \in PlayCalls : playStatusSent(c)
  \/ \E c \in PlayCalls : playScheduled(c)
  \/ cancelPlaySession

SpecPlay == InitPlay /\ [][NextPlay]_vars

(* ---------- services/matchService.js: recordMatch calls in flight ------- *)
\* the four usernames of a call in the order recordMatch reads them
allUsernames(c) == recordCalls[c].args.team1 \o recordCalls[c].args.team2

\* the Elo a call read for a player (players[i].elo of its own snapshot)
readElo(c, player) ==
  recordCalls[c].players[CHOOSE i \in 1..4 : allUsernames(c)[i] = player]

\* the first idle slot takes the next call
freeRecord(c) ==
  /\ recordCalls[c].pc = "idle"
  /\ c = "B" => recordCalls["A"].pc # "idle"

\* recordMatch is called: the team lengths are tested (lines 14-17) and the
\* loop over the usernames starts
recordMatchCall(c, sub) ==
  /\ freeRecord(c)
  /\ Len(matches) + Cardinality({d \in RecordCalls : recordCalls[d].pc # "idle"})
       < MaxMatches
  /\ IF Len(sub.team1) # 2 \/ Len(sub.team2) # 2
     THEN /\ lastOp' = [op |-> "recordMatch", outcome |-> "rejected",
                        error |-> "Each team must have exactly 2 players",
                        args |-> sub]
          /\ UNCHANGED recordCalls
     ELSE /\ recordCalls' = [recordCalls EXCEPT ![c] =
                               [IdleRecord EXCEPT !.pc = "getPlayerByUsername",
                                                  !.args = sub, !.k = 1]]
          /\ UNCHANGED lastOp
  /\ UNCHANGED <<clock, elo, seasonStartElo, chatId, matches, seasonDocs, runs,
                 procs, fnIn, fnOut, matchCreationState, dateNow,
                 playSession, playButtons, playCalls>>

\* await playerService.getPlayerByUsername(username) returns (lines 22-28);
\* after the fourth the duplicates are tested (lines 30-34) and the Elo
\* changes are computed from the players read (lines 36-52)
recordMatchGetPlayer(c) ==
  /\ recordCalls[c].pc = "getPlayerByUsername"
  /\ LET call == recordCalls[c]
         username == allUsernames(c)[call.k]
         rejected(error) ==
           /\ lastOp' = [op |-> "recordMatch", outcome |-> "rejected",
                         error |-> error, args |-> call.args]
           /\ recordCalls' = [recordCalls EXCEPT ![c] = IdleRecord]
     IN  IF username \notin Players
         THEN rejected("Player not found. Please register first.")
         ELSE IF call.k < 4
         THEN /\ recordCalls' = [recordCalls EXCEPT
                                   ![c].players = Append(@, elo[username]),
                                   ![c].k = @ + 1]
              /\ UNCHANGED lastOp
         ELSE IF Cardinality(Range(allUsernames(c))) # 4
         THEN rejected("All players must be different")
         ELSE /\ recordCalls' = [recordCalls EXCEPT
                                   ![c].players = Append(@, elo[username]),
                                   ![c].pc = "save"]
              /\ UNCHANGED lastOp
  /\ UNCHANGED <<clock, elo, seasonStartElo, chatId, matches, seasonDocs, runs,
                 procs, fnIn, fnOut, matchCreationState, dateNow,
                 playSession, playButtons, playCalls>>

\* await match.save() returns (lines 54-66): the match holds the changes
\* computed from the Elo values the call read
recordMatchSave(c) ==
  /\ recordCalls[c].pc = "save"
  /\ LET read == [p \in Players |->
                    IF p \in Range(allUsernames(c)) THEN readElo(c, p)
                    ELSE elo[p]]
     IN  matches' = recordMatchWrites(recordCalls[c].args, matches, read,
                                      clock).matches
  /\ recordCalls' = [recordCalls EXCEPT ![c].pc = "updatePlayerElo",
                                        ![c].k = 1,
                                        ![c].match = Len(matches) + 1]
  /\ UNCHANGED <<clock, elo, seasonStartElo, chatId, seasonDocs, lastOp, runs,
                 procs, fnIn, fnOut, matchCreationState, dateNow,
                 playSession, playButtons, playCalls>>

\* one await playerService.updatePlayerElo(id, player.elo + change) returns
\* (lines 68-72), in the order winner 1, loser 1, winner 2, loser 2; the
\* value written is the Elo the call read plus the change; after the fourth
\* the call returns
recordMatchUpdateElo(c) ==
  /\ recordCalls[c].pc = "updatePlayerElo"
  /\ LET call == recordCalls[c]
         match == matches[call.match]
         i == (call.k + 1) \div 2
         winner == call.k % 2 = 1
         player == IF winner THEN match.winners[i] ELSE match.losers[i]
         change == IF winner THEN match.eloChanges.winners[i]
                   ELSE match.eloChanges.losers[i]
     IN  /\ elo' = [elo EXCEPT ![player] = readElo(c, player) + change]
         /\ IF call.k < 4
            THEN /\ recordCalls' = [recordCalls EXCEPT ![c].k = @ + 1]
                 /\ UNCHANGED lastOp
            ELSE /\ recordCalls' = [recordCalls EXCEPT ![c] = IdleRecord]
                 /\ lastOp' = [op |-> "recordMatch", outcome |-> "resolved",
                               match |-> call.match, args |-> call.args]
  /\ UNCHANGED <<clock, seasonStartElo, chatId, matches, seasonDocs, runs,
                 procs, fnIn, fnOut, matchCreationState, dateNow,
                 playSession, playButtons, playCalls>>

\* recordMatch calls of several chats, interleaved at their awaits
NextRecording ==
  \/ \E c \in RecordCalls, sub \in PairedSubmissions : recordMatchCall(c, sub)
  \/ \E c \in RecordCalls : recordMatchGetPlayer(c)
  \/ \E c \in RecordCalls : recordMatchSave(c)
  \/ \E c \in RecordCalls : recordMatchUpdateElo(c)

SpecRecording == Init /\ [][NextRecording]_vars

(* ------------- handlers/commandHandlers.js: the /season tables --------- *)
\* calculateRankPoints(rank): the points of a row from its position
\* (lines 595-597)
calculateRankPoints(rank) == IF rank <= 3 THEN 4 - rank ELSE 0

\* text.padStart(n) on a sequence of characters
padStart(text, n) ==
  [i \in 1..(Max(n, Len(text)) - Len(text)) |-> " "] \o text

\* the characters Number.prototype.toString prints for the digits 0..9
DigitChars == <<"0", "1", "2", "3", "4", "5", "6", "7", "8", "9">>

\* the Points cell of a category row (formatTableRow, lines 613-614): the
\* digits of the points, "-" for none, padded to five characters
pointsDisplay(points) ==
  padStart(IF points > 0
           THEN [i \in 1..Len(digitsOf(points)) |->
                   DigitChars[digitsOf(points)[i] + 1]]
           ELSE <<"-">>, 5)

\* the rows createTable(title, data, valueName, isSummary) prints
\* (lines 644-666): rank = index + 1, and in a category table the points of
\* that rank; no rows for an empty array
createTable(data, isSummary) ==
  [i \in 1..Len(data) |->
     IF isSummary
     THEN [rank |-> i, player |-> data[i].player, value |-> data[i].value]
     ELSE [rank |-> i, player |-> data[i].player, value |-> data[i].value,
           points |-> pointsDisplay(calculateRankPoints(i))]]

\* handleSeason(msg) (lines 671-711): the leaderboard of the current season
\* printed as the summary table and the five category tables
handleSeason ==
  /\ LET currentSeason == getCurrentSeason(clock)
         g == getSeasonStats(seasonDocs, currentSeason)
         seasonData == leaderboardResult(currentSeason,
                                         getPlayerStatsArray(g.docs[g.at]))
     IN  /\ seasonDocs' = g.docs
         /\ lastOp' =
              IF Len(seasonData.summary) = 0
              THEN [op |-> "handleSeason", reply |-> "no_matches",
                    summary |-> <<>>,
                    categories |-> [c \in Range(Categories) |-> <<>>]]
              ELSE [op |-> "handleSeason", reply |-> "tables",
                    summary |-> createTable(seasonData.summary, TRUE),
                    categories |-> [c \in Range(Categories) |->
                                      createTable(seasonData.categories[c],
                                                  FALSE)]]
  /\ UNCHANGED <<clock, elo, seasonStartElo, chatId, matches, runs, procs,
                 fnIn, fnOut, matchCreationState, dateNow,
                 playSession, playButtons, playCalls, recordCalls>>

\* matches recorded and aggregated one call at a time, and /season asked
NextSeason ==
  \/ \E sub \in PairedSubmissions : recordMatch(sub)
  \/ updateSeasonStats(Len(matches))
  \/ handleSeason

SpecSeason == Init /\ [][NextSeason]_vars

(* ======================= what the ledger implies ======================= *)
seasonMatchesOf(p, s) ==
  {i \in 1..Len(matches) :
     matches[i].season = s /\ p \in Range(matches[i].players)}

seasonWinsOf(p, s) ==
  {i \in seasonMatchesOf(p, s) : p \in Range(matches[i].winners)}

\* the longest stretch of the player's season matches, in ledger order,
\* that consists of wins only
longestRunOf(p, s) ==
  LET idx == seasonMatchesOf(p, s)
      between(a, b) == {i \in idx : a <= i /\ i <= b}
      runLengths == {Cardinality(between(a, b)) :
                       <<a, b>> \in {r \in idx \X idx :
                          /\ r[1] <= r[2]
                          /\ between(r[1], r[2]) \subseteq seasonWinsOf(p, s)}}
      lens == runLengths \cup {0}
  IN  CHOOSE n \in lens : \A k \in lens : k <= n

entryFollowsLedger(e, s) ==
  /\ e.matchesPlayed = Cardinality(seasonMatchesOf(e.playerId, s))
  /\ e.totalWins = Cardinality(seasonWinsOf(e.playerId, s))
  /\ e.dryWins = Cardinality({i \in seasonWinsOf(e.playerId, s) :
                                matches[i].isDryWin})
  /\ e.longestStreak = longestRunOf(e.playerId, s)
  /\ s \in DOMAIN seasonStartElo[e.playerId]
  /\ e.eloGains = Max(0, elo[e.playerId] - seasonStartElo[e.playerId][s])

\* the players with an entry in the season's stored aggregate
statPlayers(s) ==
  IF findOne(seasonDocs, s) = 0 THEN {}
  ELSE {e.playerId : e \in Range(seasonDocs[findOne(seasonDocs, s)].playerStats)}

storedStats(s) ==
  IF findOne(seasonDocs, s) = 0 THEN <<>>
  ELSE seasonDocs[findOne(seasonDocs, s)].playerStats

ledgerPlayers(s) ==
  UNION {Range(matches[i].players) :
           i \in {j \in 1..Len(matches) : matches[j].season = s}}

ledgerSeasons == {matches[i].season : i \in 1..Len(matches)}
storedSeasons == {seasonDocs[i].season : i \in 1..Len(seasonDocs)}

\* standard competition ranking: 1 + the number of strictly greater values
competitionRank(playerStats, category, v) ==
  1 + Cardinality({i \in 1..Len(playerStats) : playerStats[i][category] > v})

competitionPoints(playerStats, category, v) ==
  IF competitionRank(playerStats, category, v) <= 3
  THEN 4 - competitionRank(playerStats, category, v) ELSE 0

expectedTotalPoints(playerStats, e) ==
  competitionPoints(playerStats, "eloGains", e.eloGains)
  + competitionPoints(playerStats, "matchesPlayed", e.matchesPlayed)
  + competitionPoints(playerStats, "dryWins", e.dryWins)
  + competitionPoints(playerStats, "totalWins", e.totalWins)
  + competitionPoints(playerStats, "longestStreak", e.longestStreak)

pointsFollowAggregate(playerStats) ==
  \A e \in Range(playerStats) :
    e.totalPoints = expectedTotalPoints(playerStats, e)

\* a submission recordMatch has to accept: two teams of two, all four
\* registered and different
wellFormed(sub) ==
  /\ Len(sub.team1) = 2
  /\ Len(sub.team2) = 2
  /\ \A u \in Range(sub.team1) \cup Range(sub.team2) : u \in Players
  /\ \A i, j \in 1..2 : sub.team1[i] # sub.team2[j]
  /\ sub.team1[1] # sub.team1[2]
  /\ sub.team2[1] # sub.team2[2]

\* what the Match invariant asks of one ledger entry
matchInvariant(m) ==
  /\ Len(m.winners) = 2
  /\ Len(m.losers) = 2
  /\ Range(m.winners) \cap Range(m.losers) = {}
  /\ Len(m.players) = 4
  /\ Cardinality(Range(m.players)) = 4
  /\ Range(m.players) = Range(m.winners) \cup Range(m.losers)
  /\ seasonPattern(seasonText(m.season))
  /\ Len(m.eloChanges.winners) = Len(m.winners)
  /\ Len(m.eloChanges.losers) = Len(m.losers)

\* YYYY-MM of the month that is k months after month 1 of year 0
monthText(k) ==
  LET y == k \div 12
      mo == (k % 12) + 1
  IN  <<y \div 1000, (y \div 100) % 10, (y \div 10) % 10, y % 10, "-",
        mo \div 10, mo % 10>>

\* the sum of the Elo changes the first k matches of the ledger hold for the
\* player
RECURSIVE ledgerEloChange(_, _)
ledgerEloChange(player, k) ==
  IF k = 0 THEN 0
  ELSE LET match == matches[k]
           own == IF \E i \in 1..2 : match.winners[i] = player
                  THEN match.eloChanges.winners[
                         CHOOSE i \in 1..2 : match.winners[i] = player]
                  ELSE IF \E i \in 1..2 : match.losers[i] = player
                  THEN match.eloChanges.losers[
                         CHOOSE i \in 1..2 : match.losers[i] = player]
                  ELSE 0
       IN  own + ledgerEloChange(player, k - 1)

\* the number a Points cell shows: the digit after the padding, 0 for "-"
shownPoints(cell) ==
  LET last == cell[Len(cell)]
  IN  IF last = "-" THEN 0 ELSE (CHOOSE d \in 1..10 : DigitChars[d] = last) - 1

\* the points shown in the player's row of a printed category table
rowPoints(table, player) ==
  shownPoints(table[CHOOSE i \in 1..Len(table) : table[i].player = player].points)

RECURSIVE shownCategorySum(_, _, _)
shownCategorySum(tables, player, k) ==
  IF k = 0 THEN 0
  ELSE rowPoints(tables[Categories[k]], player)
       + shownCategorySum(tables, player, k - 1)

(* ============================== claims ================================= *)

\* C1: once two updateSeasonStats calls for two different matches of one
\* season have both returned, however their store operations interleaved,
\* the stored aggregate has an entry with the ledger's raw fields for every
\* player of both matches and every totalPoints follows from the complete
\* aggregate.
C1_NoLostUpdate ==
  (\A c \in Procs : procs[c].pc = "done") =>
    \A s \in {matchOf(c).season : c \in Procs} :
      LET both == UNION {Range(matchOf(c).players) : c \in Procs}
      IN  /\ both \subseteq statPlayers(s)
          /\ \A e \in Range(storedStats(s)) :
               e.playerId \in both => entryFollowsLedger(e, s)
          /\ pointsFollowAggregate(storedStats(s))

\* C2: after a completed recordMatch the season aggregate is what the
\* ledger implies: the players with an entry are the players of the
\* season's ledger matches and every entry's raw fields follow from the
\* ledger and the Elo values.
C2_AggregateFollowsLedger ==
  lastOp.op = "recordMatch" =>
    \A s \in ledgerSeasons \cup storedSeasons :
      /\ statPlayers(s) = ledgerPlayers(s)
      /\ \A e \in Range(storedStats(s)) : entryFollowsLedger(e, s)

\* C3: a recorded season-start Elo never changes and is never removed, by
\* any call run after it was recorded.
C3_SeasonStartEloWriteOnce ==
  [][\A p \in Players : \A s \in DOMAIN seasonStartElo[p] :
       /\ s \in DOMAIN seasonStartElo'[p]
       /\ seasonStartElo'[p][s] = seasonStartElo[p][s]]_vars

\* C3 witness: a call that ran ensureSeasonStartElo for a player whose
\* season-start Elo was already recorded and whose Elo has moved since.
C3_Witness ==
  /\ lastOp.op = "updateSeasonStats"
  /\ \E p \in Range(matches[lastOp.match].players) :
       LET s == matches[lastOp.match].season
       IN  /\ s \in DOMAIN seasonStartElo[p]
           /\ seasonStartElo[p][s] # elo[p]

\* C4: after the first match between fresh players is recorded and
\* aggregated, each winner's eloGains is that winner's Elo increase.
C4_WinnersGainEqualsIncrease ==
  (lastOp.op = "updateSeasonStats" /\ Len(matches) = 1) =>
    \A w \in Range(matches[1].winners) :
      \E e \in Range(storedStats(matches[1].season)) :
        /\ e.playerId = w
        /\ e.eloGains = elo[w] - DefaultElo

\* C5: calculateCategoryPoints ranks by standard competition ranking: rank
\* is 1 + the number of strictly greater values, points are 4 - rank up to
\* rank 3 and 0 beyond, equal values get equal rank and points, and every
\* input entry is ranked once.
C5_CompetitionRanking ==
  fnOut.done =>
    LET r == fnOut.result
        vs == fnIn.values
    IN  /\ Len(r) = Len(vs)
        /\ {r[i].playerId : i \in 1..Len(r)} = 1..Len(vs)
        /\ \A i \in 1..Len(r) :
             /\ r[i].value = vs[r[i].playerId]
             /\ r[i].rank = 1 + Cardinality({j \in 1..Len(vs) : vs[j] > r[i].value})
             /\ r[i].points = IF r[i].rank <= 3 THEN 4 - r[i].rank ELSE 0
        /\ \A i, j \in 1..Len(r) :
             r[i].value = r[j].value =>
               r[i].rank = r[j].rank /\ r[i].points = r[j].points

\* C5 witness: values [100,100,60,40] were ranked [1,1,3,4] with points
\* [3,3,1,0].
C5_Witness ==
  /\ fnOut.done
  /\ fnIn.values = <<100, 100, 60, 40>>
  /\ [i \in 1..4 |-> fnOut.result[i].rank] = <<1, 1, 3, 4>>
  /\ [i \in 1..4 |-> fnOut.result[i].points] = <<3, 3, 1, 0>>

\* C6: in the summary returned by getSeasonLeaderboard, entries with equal
\* totalPoints have the same rank.
C6_TiedPlayersShareRank ==
  lastOp.op = "getSeasonLeaderboard" =>
    \A i, j \in 1..Len(lastOp.summary) :
      lastOp.summary[i].value = lastOp.summary[j].value =>
        lastOp.summary[i].rank = lastOp.summary[j].rank

\* C7: when updateSeasonStats(match) has returned, the four players of the
\* match have their ledger-derived raw fields stored and the totalPoints of
\* every entry of the season, touched or not, is the sum of its category
\* points over the raw fields now stored.
C7_PointsRecomputedForAll ==
  lastOp.op = "updateSeasonStats" =>
    LET m == matches[lastOp.match]
    IN  /\ Range(m.players) \subseteq statPlayers(m.season)
        /\ \A e \in Range(storedStats(m.season)) :
             e.playerId \in Range(m.players) => entryFollowsLedger(e, m.season)
        /\ pointsFollowAggregate(storedStats(m.season))

\* C7 witness: updateSeasonStats returned for a match while the season
\* holds an entry of a player who did not take part in it.
C7_Witness ==
  /\ lastOp.op = "updateSeasonStats"
  /\ \E e \in Range(storedStats(matches[lastOp.match].season)) :
       /\ e.playerId \notin Range(matches[lastOp.match].players)
       /\ e.totalPoints > 0

\* C8: there is at most one Season record per season identifier, also
\* after createNewSeasonAndNotify ran for a season that has a record.
C8_OneRecordPerSeason ==
  \A i, j \in 1..Len(seasonDocs) :
    seasonDocs[i].season = seasonDocs[j].season => i = j

\* C9: a run of createNewSeasonAndNotify in which the store failed rejects.
C9_TransitionFailurePropagates ==
  (lastOp.op = "createNewSeasonAndNotify" /\ lastOp.fault # "none") =>
    lastOp.outcome = "rejected"

\* C10: in a run of createNewSeasonAndNotify in which a send failed, a send
\* was attempted for every player with a chatId, the new season's record
\* is in the store and the season-start Elo values recorded by the run are
\* in place.
C10_SendFailureDoesNotAbort ==
  (lastOp.op = "createNewSeasonAndNotify" /\ lastOp.sendFail # {}) =>
    /\ {lastOp.messages[i].to : i \in 1..Len(lastOp.messages)}
         = {p \in Players : chatId[p]}
    /\ \E i \in 1..Len(seasonDocs) : seasonDocs[i].season = lastOp.newSeason
    /\ lastOp.fault # "ensureFind" =>
         \A p \in Players : lastOp.newSeason \in DOMAIN seasonStartElo[p]

\* C10 witness: the send to the first player failed and the later players
\* with a chatId were still sent to.
C10_Witness ==
  /\ lastOp.op = "createNewSeasonAndNotify"
  /\ lastOp.sendFail = {1}
  /\ Len(lastOp.messages) >= 2
  /\ ~lastOp.messages[1].delivered
  /\ lastOp.messages[Len(lastOp.messages)].delivered

\* the place of player p in the season's stored aggregate ordered by
\* totalPoints descending, earlier entries first among equals; 0 when the
\* player has no entry
placeOf(p, s) ==
  LET stats == storedStats(s)
      at == statIndex(stats, p)
  IN  IF at = 0 THEN 0
      ELSE 1 + Cardinality({j \in 1..Len(stats) :
                 \/ stats[j].totalPoints > stats[at].totalPoints
                 \/ stats[j].totalPoints = stats[at].totalPoints /\ j < at})

\* C11: in a run of createNewSeasonAndNotify with no store failure, every
\* player with a chatId is sent exactly one message and a player without
\* chatId none; the message is the congratulatory one, carrying the
\* player's place and totalPoints, exactly when the player holds one of the
\* first three places of the previous season, and the season-ended one
\* otherwise.
C11_OneMessagePerPlayer ==
  (lastOp.op = "createNewSeasonAndNotify" /\ lastOp.fault = "none") =>
    LET msgs == lastOp.messages
        prev == getPreviousSeason(lastOp.newSeason)
    IN  /\ \A p \in Players :
             Cardinality({i \in 1..Len(msgs) : msgs[i].to = p})
               = IF chatId[p] THEN 1 ELSE 0
        /\ \A i \in 1..Len(msgs) :
             IF placeOf(msgs[i].to, prev) \in 1..3
             THEN /\ msgs[i].variant = "congratulations"
                  /\ msgs[i].rank = placeOf(msgs[i].to, prev)
                  /\ msgs[i].points =
                       storedStats(prev)[statIndex(storedStats(prev),
                                                   msgs[i].to)].totalPoints
             ELSE msgs[i].variant = "ended"

\* C11 witness: a run without failure congratulated the third of the
\* previous season and sent the season-ended message to a player who has an
\* entry but no podium place.
C11_Witness ==
  /\ lastOp.op = "createNewSeasonAndNotify"
  /\ lastOp.fault = "none"
  /\ \E i, j \in 1..Len(lastOp.messages) :
       /\ lastOp.messages[i].variant = "congratulations"
       /\ lastOp.messages[i].rank = 3
       /\ lastOp.messages[j].variant = "ended"
       /\ placeOf(lastOp.messages[j].to, getPreviousSeason(lastOp.newSeason)) > 3

\* C12: when a run of createNewSeasonAndNotify has sent notifications,
\* every registered player has a season-start Elo recorded for the new
\* season.
C12_RecordedBeforeNotifying ==
  (lastOp.op = "createNewSeasonAndNotify" /\ Len(lastOp.messages) > 0) =>
    \A p \in Players : lastOp.newSeason \in DOMAIN seasonStartElo[p]

\* C13: for a recorded season-start Elo of any value from 0 upwards, the
\* eloGains computed is max(0, current Elo - season-start Elo): never
\* negative, and 0 exactly when the current Elo is not above the
\* season-start Elo.
C13_EloGainsIsClampedDifference ==
  fnOut.done =>
    /\ fnOut.result = Max(0, fnIn.current - fnIn.start)
    /\ fnOut.result >= 0
    /\ (fnOut.result = 0) <=> (fnIn.current <= fnIn.start)

\* C14: after updateSeasonStats(match), each of the four players of the
\* match has an entry whose matchesPlayed is the number of the season's
\* ledger matches containing the player, whose totalWins is the number of
\* those the player won and whose dryWins is the number of those the player
\* won that are flagged isDryWin.
C14_CountsFollowLedger ==
  lastOp.op = "updateSeasonStats" =>
    LET m == matches[lastOp.match]
    IN  \A p \in Range(m.players) :
          \E e \in Range(storedStats(m.season)) :
            /\ e.playerId = p
            /\ e.matchesPlayed = Cardinality(seasonMatchesOf(p, m.season))
            /\ e.totalWins = Cardinality(seasonWinsOf(p, m.season))
            /\ e.dryWins = Cardinality({i \in seasonWinsOf(p, m.season) :
                                          matches[i].isDryWin})

\* C14 witness: updateSeasonStats returned with a player who won two
\* matches of which one was dry, and a player who lost a dry match.
C14_Witness ==
  /\ lastOp.op = "updateSeasonStats"
  /\ \E e, f \in Range(storedStats(matches[lastOp.match].season)) :
       /\ e.totalWins = 2 /\ e.dryWins = 1
       /\ f.matchesPlayed >= 1 /\ f.totalWins = 0 /\ f.dryWins = 0
       /\ \E i \in seasonMatchesOf(f.playerId, matches[lastOp.match].season) :
            matches[i].isDryWin

\* C15: calculateWinStreak returns the length of the longest stretch of
\* consecutive wins in the chronological order of the matches, in whatever
\* order they are passed; it is 0 without matches and without wins.
C15_LongestChronologicalRun ==
  fnOut.done =>
    LET res == fnIn.results
        n == Len(res)
        runs0 == {b - a + 1 : <<a, b>> \in
                    {r \in (1..n) \X (1..n) :
                       r[1] <= r[2] /\ \A t \in r[1]..r[2] : res[t]}}
    IN  /\ fnOut.result \in runs0 \cup {0}
        /\ \A len \in runs0 : len <= fnOut.result
        /\ (\A t \in 1..n : ~res[t]) => fnOut.result = 0

\* C15 witness: results [W,W,L,W] passed latest match first gave 2.
C15_Witness ==
  /\ fnOut.done
  /\ fnIn.results = <<TRUE, TRUE, FALSE, TRUE>>
  /\ fnIn.order = <<4, 3, 1, 2>>
  /\ fnOut.result = 2

\* C16: calling updateSeasonStats again for the match it has just
\* aggregated, with the ledger and the Elo values unchanged, leaves the
\* stored aggregate as it was: the same entries, raw fields and totalPoints,
\* and the same season-start Elo values.
C16_RecomputeIsIdempotent ==
  [][(/\ lastOp.op = "updateSeasonStats"
      /\ lastOp'.op = "updateSeasonStats"
      /\ lastOp'.match = lastOp.match
      /\ matches' = matches
      /\ elo' = elo)
     => (seasonDocs' = seasonDocs /\ seasonStartElo' = seasonStartElo)]_vars

\* C16 witness: updateSeasonStats has returned for the latest match of a
\* full ledger and the season holds entries with points; the same call can
\* be made again.
C16_Witness ==
  /\ lastOp.op = "updateSeasonStats"
  /\ lastOp.match = MaxMatches
  /\ Len(matches) = MaxMatches
  /\ \E e \in Range(storedStats(matches[MaxMatches].season)) :
       e.matchesPlayed = MaxMatches /\ e.totalPoints > 0

\* C17: addOrUpdatePlayerStats keeps one entry per player.  For a player
\* already present the number and order of entries is unchanged, every
\* other player's entry is unchanged and in the player's entry exactly the
\* supplied fields take the supplied values (totalPoints stays unless
\* supplied).  For an absent player the existing entries are unchanged and
\* one entry keyed by the player id, holding the supplied values, is added.
C17_UpsertInPlace ==
  fnOut.done =>
    LET before == fnIn.playerStats
        after == fnOut.result
        present == \E i \in 1..Len(before) : before[i].playerId = fnIn.playerId
    IN  /\ \A i, j \in 1..Len(after) :
             after[i].playerId = after[j].playerId => i = j
        /\ present =>
             /\ Len(after) = Len(before)
             /\ \A i \in 1..Len(before) :
                  IF before[i].playerId # fnIn.playerId
                  THEN after[i] = before[i]
                  ELSE /\ after[i].playerId = fnIn.playerId
                       /\ \A f \in StatFields :
                            after[i][f] = IF f \in DOMAIN fnIn.stats
                                          THEN fnIn.stats[f] ELSE before[i][f]
        /\ ~present =>
             /\ Len(after) = Len(before) + 1
             /\ SubSeq(after, 1, Len(before)) = before
             /\ after[Len(after)].playerId = fnIn.playerId
             /\ \A f \in DOMAIN fnIn.stats :
                  after[Len(after)][f] = fnIn.stats[f]

\* C17 witness: eloGains and matchesPlayed were supplied for the first of
\* two stored players; that entry kept its totalPoints and dryWins.
C17_Witness ==
  /\ fnOut.done
  /\ Len(fnIn.playerStats) = 2
  /\ fnIn.playerStats[1].playerId = fnIn.playerId
  /\ DOMAIN fnIn.stats = {"eloGains", "matchesPlayed"}
  /\ fnOut.result[1].eloGains = 20
  /\ fnOut.result[1].totalPoints = fnIn.playerStats[1].totalPoints
  /\ fnOut.result[1].totalPoints > 0
  /\ fnOut.result[1].dryWins = fnIn.playerStats[1].dryWins

\* C18: a recordMatch call whose submission does not have two teams of two
\* players, names an unregistered player or names a player twice is
\* rejected, and the call appends no match and changes no player's Elo.
C18_MalformedSubmissionRejected ==
  [][(lastOp'.op = "recordMatch" /\ ~wellFormed(lastOp'.args))
     => /\ lastOp'.outcome = "rejected"
        /\ matches' = matches
        /\ elo' = elo]_vars

\* C18 witness: after one match was recorded, a submission naming a player
\* twice was rejected.
C18_Witness ==
  /\ lastOp.op = "recordMatch"
  /\ lastOp.outcome = "rejected"
  /\ lastOp.error = "All players must be different"
  /\ Len(matches) = 1
  /\ \E p \in Players : elo[p] # DefaultElo

\* C19: every match of the ledger has two winners and two losers that are
\* disjoint, a players list of exactly those four, a season of the form
\* YYYY-MM and eloChanges lists as long as the winners and losers lists;
\* the change stored at an index is the one applied to the player at that
\* index; a saved match is never changed or removed.
C19_LedgerEntriesWellFormedAndKept ==
  [][/\ \A i \in 1..Len(matches) :
          i <= Len(matches') /\ matches'[i] = matches[i]
     /\ \A i \in 1..Len(matches') : matchInvariant(matches'[i])
     /\ \A i \in (Len(matches) + 1)..Len(matches') :
          \A k \in 1..2 :
            /\ elo'[matches'[i].winners[k]]
                 = elo[matches'[i].winners[k]] + matches'[i].eloChanges.winners[k]
            /\ elo'[matches'[i].losers[k]]
                 = elo[matches'[i].losers[k]] + matches'[i].eloChanges.losers[k]]_vars

\* C19 witness: the ledger holds two matches of different seasons and
\* different winners, the later one of a month with a single digit.
C19_Witness ==
  /\ Len(matches) = 2
  /\ matches[1].season # matches[2].season
  /\ matches[2].season.m < 10
  /\ matches[1].winners # matches[2].winners

\* C20: the dry-win answer reaches the ledger and the statistics: after
\* handlePlayerSelection recorded a match for the answer dry_win_yes the
\* match has isDryWin = TRUE and each winner's dryWins of the season is at
\* least one; for dry_win_no the match has isDryWin = FALSE.
C20_DryWinAnswerRecorded ==
  (/\ lastOp.op = "recordMatch"
   /\ lastOp.outcome = "resolved"
   /\ "isDryWin" \in DOMAIN lastOp.args) =>
    LET m == matches[lastOp.match]
    IN  /\ m.isDryWin = lastOp.args.isDryWin
        /\ lastOp.args.isDryWin =>
             \A w \in Range(m.winners) :
               \E e \in Range(storedStats(m.season)) :
                 e.playerId = w /\ e.dryWins >= 1

\* C21: detectDryWin classifies a match as a dry win exactly when the
\* average of the losing pair's Elo changes is less than or equal to -15.
C21_DryWinAtOrBelowThreshold ==
  fnOut.done =>
    (fnOut.result <=> (fnIn.losers[1] + fnIn.losers[2] <= -30))

\* C21 amended: detectDryWin classifies a match as a dry win exactly when
\* the average of the losing pair's Elo changes is below -15; an average of
\* exactly -15 is not a dry win.
C21_DryWinBelowThreshold ==
  fnOut.done =>
    /\ fnOut.result <=> (fnIn.losers[1] + fnIn.losers[2] < -30)
    /\ (fnIn.losers[1] + fnIn.losers[2] = -30) => ~fnOut.result

\* C21 witness: losers' changes of -15 and -15 were classified as not dry,
\* as were -14 and -16.
C21_Witness ==
  /\ fnOut.done
  /\ fnIn.losers \in {<<-15, -15>>, <<-14, -16>>}
  /\ ~fnOut.result

\* C22: calculateTotalPoints leaves the array holding the same players with
\* their raw fields, each with totalPoints equal to the sum of the player's
\* points in the five categories, ordered by totalPoints descending; a
\* single player gets 15.
C22_TotalIsSumOfFiveCategories ==
  fnOut.done =>
    LET before == fnIn.playerStats
        after == fnOut.result
    IN  /\ Len(after) = Len(before)
        /\ \A e \in Range(before) :
             \E i \in 1..Len(after) :
               /\ after[i].playerId = e.playerId
               /\ \A c \in Range(Categories) : after[i][c] = e[c]
               /\ after[i].totalPoints = expectedTotalPoints(before, e)
        /\ \A i, j \in 1..Len(after) :
             i < j => after[i].totalPoints >= after[j].totalPoints
        /\ Len(before) = 1 => after[1].totalPoints = 15

\* C22 witness: of two players the second leads in three categories and
\* the first in two; the second was given 13 points and moved to the front,
\* the first 12.
C22_Witness ==
  /\ fnOut.done
  /\ Len(fnIn.playerStats) = 2
  /\ fnOut.result[1].playerId = 2
  /\ fnOut.result[1].totalPoints = 13
  /\ fnOut.result[2].totalPoints = 12

\* C23: whatever the interleaving of the getSeasonStats calls made for a
\* season, once a call has returned there is exactly one Season record for
\* that season.
C23_GetOrCreateOneRecord ==
  \A c \in Procs :
    procs[c].pc \notin {"idle", "findOne", "create"} =>
      Cardinality({i \in 1..Len(seasonDocs) :
                     seasonDocs[i].season = matchOf(c).season}) = 1

\* C24: for every year and month of the wall clock, getNextSeason returns
\* the zero-padded YYYY-MM of the following month and getPreviousSeason
\* that of the preceding month, wrapping over the year boundary.
C24_NextAndPreviousMonth ==
  fnOut.done =>
    LET k == fnIn.y * 12 + (fnIn.m - 1)
    IN  /\ fnOut.next = monthText(k + 1)
        /\ fnOut.previous = monthText(k - 1)
        /\ seasonPattern(fnOut.next)
        /\ seasonPattern(fnOut.previous)

\* C24 witness: in January 2024 the next season is 2024-02 and the previous
\* one 2023-12; in December 2024 the next season is 2025-01.
C24_Witness ==
  /\ fnOut.done
  /\ \/ /\ fnIn = [y |-> 2024, m |-> 1]
        /\ fnOut.next = <<2, 0, 2, 4, "-", 0, 2>>
        /\ fnOut.previous = <<2, 0, 2, 3, "-", 1, 2>>
     \/ /\ fnIn = [y |-> 2024, m |-> 12]
        /\ fnOut.next = <<2, 0, 2, 5, "-", 0, 1>>

\* C25: getSeasonWinners(season) returns the first min(3, n) entries of the
\* season's ranking by totalPoints, in ranking order, n being the number of
\* players with stats in the season; with no player stats it returns the
\* empty list.
C25_WinnersAreFirstThree ==
  lastOp.op = "getSeasonWinners" =>
    LET stats == storedStats(lastOp.season)
        n == Len(stats)
        winners == lastOp.winners
    IN  /\ Len(winners) = (IF n < 3 THEN n ELSE 3)
        /\ \A i \in 1..Len(winners) :
             /\ placeOf(winners[i].player, lastOp.season) = i
             /\ winners[i].rank = i
             /\ winners[i].value =
                  stats[statIndex(stats, winners[i].player)].totalPoints

\* getSeasonWinners answered with three winners for a season in which at
\* least four players have stats, not all with the same totalPoints
C25_Witness ==
  /\ lastOp.op = "getSeasonWinners"
  /\ Len(storedStats(lastOp.season)) >= 4
  /\ Len(lastOp.winners) = 3
  /\ lastOp.winners[1].value > lastOp.winners[3].value

\* C26: getSeasonLeaderboard for a season without matches resolves with the
\* season asked for, an empty summary and five empty category lists, both
\* when the season's record is created by the call and when it existed.
C26_EmptySeasonLeaderboard ==
  (lastOp.op = "getSeasonLeaderboard" /\ lastOp.season \notin ledgerSeasons) =>
    /\ lastOp.outcome = "resolved"
    /\ lastOp.summary = <<>>
    /\ DOMAIN lastOp.categories =
         {"eloGains", "matchesPlayed", "dryWins", "totalWins", "longestStreak"}
    /\ \A c \in DOMAIN lastOp.categories : lastOp.categories[c] = <<>>
    /\ storedStats(lastOp.season) = <<>>
    /\ findOne(seasonDocs, lastOp.season) # 0

\* the leaderboard of a season without matches was asked for when its record
\* already existed: the record is the older of two, and the other season
\* has matches and stats
C26_Witness ==
  /\ lastOp.op = "getSeasonLeaderboard"
  /\ lastOp.season \notin ledgerSeasons
  /\ Len(seasonDocs) = 2
  /\ seasonDocs[1].season = lastOp.season
  /\ Len(seasonDocs[2].playerStats) > 0
  /\ lastOp.summary = <<>>

\* C27: when the two teams have equal average ratings, calculateTeamEloChanges
\* gives both winners the same positive change, both losers the same
\* negative change, and the winners' change is the negation of the losers'
\* change: +16 and -16 with K = 32.
C27_EqualAveragesSplitEvenly ==
  (fnOut.done /\ fnIn.team1[1] + fnIn.team1[2] = fnIn.team2[1] + fnIn.team2[2]) =>
    LET won == IF fnIn.winnerTeam = 1 THEN fnOut.result.team1Changes
               ELSE fnOut.result.team2Changes
        lost == IF fnIn.winnerTeam = 1 THEN fnOut.result.team2Changes
                ELSE fnOut.result.team1Changes
    IN  /\ won[1] = won[2] /\ won[1] > 0
        /\ lost[1] = lost[2] /\ lost[1] < 0
        /\ won[1] = 0 - lost[1]
        /\ won[1] = K_FACTOR \div 2

\* team 2 won a match of 984/1016 against 1000/1000 and the changes were
\* computed
C27_Witness ==
  /\ fnOut.done
  /\ fnIn.team1 = <<984, 1016>> /\ fnIn.team2 = <<1000, 1000>>
  /\ fnIn.winnerTeam = 2
  /\ fnOut.result.team2Changes = <<16, 16>>
  /\ fnOut.result.team1Changes = <<-16, -16>>

\* C28: no player's stored Elo rating is below 0, whatever matches have been
\* recorded.
C28_EloNeverBelowZero == \A p \in Players : elo[p] >= 0

\* C29: a /match sent in a chat whose session has been idle for more than 5
\* minutes starts a new session and is not answered with "Match creation
\* already in progress", whether or not a button callback arrived since.
C29_StaleSessionDoesNotBlock ==
  [][(/\ lastOp'.op = "handleMatch"
      /\ dateNow' = dateNow
      /\ lastOp'.chatId \in DOMAIN matchCreationState
      /\ dateNow - matchCreationState[lastOp'.chatId].timestamp > 5)
     => (/\ lastOp'.reply = "select_winners"
         /\ lastOp'.chatId \in DOMAIN matchCreationState'
         /\ matchCreationState'[lastOp'.chatId].timestamp = dateNow
         /\ matchCreationState'[lastOp'.chatId].userId = lastOp'.userId)]_vars

\* C30 as stated: any button callback arriving more than 5 minutes after the
\* session's last step change removes the session, is answered with the
\* session-expired reply and records no match, whatever its data.
C30_AnyExpiredCallbackRemoves ==
  [][(/\ lastOp'.op = "handlePlayerSelection"
      /\ dateNow' = dateNow
      /\ lastOp'.chatId \in DOMAIN matchCreationState
      /\ dateNow - matchCreationState[lastOp'.chatId].timestamp > 5)
     => (/\ lastOp'.chatId \notin DOMAIN matchCreationState'
         /\ lastOp'.reply = "session_expired"
         /\ matches' = matches
         /\ elo' = elo)]_vars

\* C30, amended: a button callback from the user who started the session
\* arriving more than 5 minutes after the session's last step change
\* removes the session, is answered with the session-expired reply and
\* records no match, whatever its data.
C30_OwnersExpiredCallbackRemoves ==
  [][(/\ lastOp'.op = "handlePlayerSelection"
      /\ dateNow' = dateNow
      /\ lastOp'.chatId \in DOMAIN matchCreationState
      /\ matchCreationState[lastOp'.chatId].userId = lastOp'.userId
      /\ dateNow - matchCreationState[lastOp'.chatId].timestamp > 5)
     => (/\ lastOp'.chatId \notin DOMAIN matchCreationState'
         /\ lastOp'.reply = "session_expired"
         /\ matches' = matches
         /\ elo' = elo)]_vars

\* a dry-win answer was given the session-expired reply: the session is
\* gone and the ledger is still empty
C30_Witness ==
  /\ lastOp.op = "handlePlayerSelection"
  /\ lastOp.data = "dry_win_yes"
  /\ lastOp.reply = "session_expired"
  /\ DOMAIN matchCreationState = {}
  /\ matches = <<>>
  /\ dateNow > 5

\* C31: /match in a chat that has a session, and a callback from a user
\* other than the session's initiator or in a chat without a session, is
\* answered with an error reply, leaves the session map as it was (step,
\* winners, losers and timestamp included) and records no match.
C31_OnlyInitiatorChangesSession ==
  [][(/\ dateNow' = dateNow
      /\ \/ /\ lastOp'.op = "handleMatch"
            /\ lastOp'.chatId \in DOMAIN matchCreationState
         \/ /\ lastOp'.op = "handlePlayerSelection"
            /\ \/ lastOp'.chatId \notin DOMAIN matchCreationState
               \/ matchCreationState[lastOp'.chatId].userId # lastOp'.userId)
     => (/\ matchCreationState' = matchCreationState
         /\ matches' = matches
         /\ elo' = elo
         /\ lastOp'.reply = IF lastOp'.op = "handleMatch"
                            THEN "already_in_progress"
                            ELSE "invalid_action")]_vars

\* the other user pressed a button of a session that holds two winners and
\* one loser and was answered with the invalid-action reply
C31_Witness ==
  /\ lastOp.op = "handlePlayerSelection"
  /\ lastOp.reply = "invalid_action"
  /\ 1 \in DOMAIN matchCreationState
  /\ matchCreationState[1].userId # lastOp.userId
  /\ matchCreationState[1].step = "select_losers"
  /\ Len(matchCreationState[1].winners) = 2
  /\ Len(matchCreationState[1].losers) = 1

\* C32: the accepted list of a play session never holds more than 4
\* users; when no play handler is in flight, a session with 4 or more
\* acceptances is not active; and the match-scheduled message is sent to
\* exactly the 4 accepted users.
C32_FourAcceptancesEndSession ==
  /\ Len(playSession.accepted) <= 4
  /\ (/\ \A c \in PlayCalls : playCalls[c].pc = "idle"
      /\ Len(playSession.accepted) >= 4)
     => ~playSession.active
  /\ (lastOp.op = "play_callback" /\ lastOp.outcome = "scheduled")
     => Len(lastOp.scheduled) = 4

\* C33: /play sent while a play session is active changes no list and
\* sends no invitation, and after every step no username is in both the
\* accepted and the declined list.
C33_OneSessionDisjointLists ==
  [][/\ (/\ playSession.active
         /\ lastOp'.op = "handlePlay"
         /\ lastOp'.reply = "already_in_progress"
         /\ (lastOp' # lastOp \/ playButtons'.cancel # playButtons.cancel))
        => (/\ playSession' = playSession
            /\ playButtons'.invitations = playButtons.invitations)
     /\ \A u \in Players :
          ~(includes(playSession'.accepted, u)
            /\ includes(playSession'.declined, u))]_vars

\* C34: in every match-creation session winners and losers hold at most 2
\* players each, no player twice or in both lists, and exactly 2 each in
\* step ask_dry_win; and recordMatch is never called with arguments it
\* rejects.
C34_SelectionsWellFormed ==
  /\ \A chat \in DOMAIN matchCreationState :
       LET state == matchCreationState[chat]
           both == state.winners \o state.losers
       IN  /\ Len(state.winners) <= 2
           /\ Len(state.losers) <= 2
           /\ \A i, j \in 1..Len(both) : both[i] = both[j] => i = j
           /\ state.step = "ask_dry_win"
                => Len(state.winners) = 2 /\ Len(state.losers) = 2
  /\ lastOp.op = "handlePlayerSelection" => lastOp.outcome # "rejected"

C36_SessionRemovedExactlyWhen ==
  [][LET callback == lastOp'.op = "handlePlayerSelection" /\ dateNow' = dateNow
         removing == {"match_recorded", "cancelled", "session_expired"}
     IN  /\ \A chat \in DOMAIN matchCreationState :
               chat \notin DOMAIN matchCreationState'
                 => /\ callback
                    /\ lastOp'.chatId = chat
                    /\ lastOp'.userId = matchCreationState[chat].userId
                    /\ lastOp'.outcome = "resolved"
                    /\ lastOp'.reply \in removing
         /\ (callback /\ lastOp'.outcome = "resolved"
               /\ lastOp'.reply \in removing)
              => /\ lastOp'.chatId \in DOMAIN matchCreationState
                 /\ lastOp'.chatId \notin DOMAIN matchCreationState'
         /\ (callback /\ lastOp'.reply = "match_recorded")
              <=> Len(matches') = Len(matches) + 1
         /\ (callback /\ lastOp'.outcome = "rejected")
              => /\ matchCreationState' = matchCreationState
                 /\ matchCreationState[lastOp'.chatId].step = "ask_dry_win"
                 /\ matches' = matches /\ elo' = elo
         /\ (lastOp'.op = "handleMatch" /\ dateNow' = dateNow
               /\ lastOp'.reply = "already_in_progress")
              => lastOp'.chatId \in DOMAIN matchCreationState
  ]_vars

\* after a match was recorded through the session of the chat, /match has
\* started a new session in the same chat
C36_Witness ==
  /\ Len(matches) = 1
  /\ lastOp.op = "handleMatch"
  /\ lastOp.reply = "select_winners"
  /\ lastOp.chatId \in DOMAIN matchCreationState
  /\ matchCreationState[lastOp.chatId].step = "select_winners"

\* C37: when no recordMatch call is in flight, every player's stored Elo is
\* 1000 plus the sum of the Elo changes the ledger holds for that player,
\* also after calls that share a player ran interleaved.
C37_EloIsSumOfLedgerChanges ==
  (\A c \in RecordCalls : recordCalls[c].pc = "idle")
    => \A p \in Players : elo[p] = DefaultElo + ledgerEloChange(p, Len(matches))

\* C38: in the tables /season prints, for every player the points shown in
\* the player's rows of the five category tables add up to the totalPoints
\* shown for the player in the summary table.
C38_ShownPointsSumToTotal ==
  (lastOp.op = "handleSeason" /\ lastOp.reply = "tables")
    => \A i \in 1..Len(lastOp.summary) :
         shownCategorySum(lastOp.categories, lastOp.summary[i].player,
                          Len(Categories))
           = lastOp.summary[i].value

\* C39: every per-player entry of every stored season aggregate has
\* 0 <= dryWins <= totalWins <= matchesPlayed, 0 <= longestStreak <=
\* totalWins, longestStreak >= 1 whenever totalWins >= 1, and eloGains >= 0.
C39_EntryFieldsOrdered ==
  \A d \in 1..Len(seasonDocs) :
    \A k \in 1..Len(seasonDocs[d].playerStats) :
      LET e == seasonDocs[d].playerStats[k]
      IN  /\ 0 <= e.dryWins
          /\ e.dryWins <= e.totalWins
          /\ e.totalWins <= e.matchesPlayed
          /\ 0 <= e.longestStreak
          /\ e.longestStreak <= e.totalWins
          /\ e.totalWins >= 1 => e.longestStreak >= 1
          /\ e.eloGains >= 0

\* a stored entry of a player who won both matches of the season, one of
\* them dry, next to an entry of a player who lost a dry match
C39_Witness ==
  \E d \in 1..Len(seasonDocs) :
    /\ \E k \in 1..Len(seasonDocs[d].playerStats) :
         LET e == seasonDocs[d].playerStats[k]
         IN  e.dryWins = 1 /\ e.totalWins = 2 /\ e.matchesPlayed = 2
             /\ e.longestStreak = 2
    /\ \E k \in 1..Len(seasonDocs[d].playerStats) :
         LET e == seasonDocs[d].playerStats[k]
         IN  e.totalWins = 0 /\ e.matchesPlayed >= 1
             /\ \E i \in 1..Len(matches) :
                  matches[i].isDryWin /\ isWinner(matches[i], e.playerId) = FALSE
                    /\ e.playerId \in Range(matches[i].players)

\* C40: in every stored season aggregate with at least one entry, each
\* totalPoints lies in 0..15, every category has a player holding 3 points,
\* the highest totalPoints is at least 3, and an entry whose five raw values
\* are each the maximum of their category (ties and all-zero categories
\* included) has totalPoints 15.
C40_TotalPointsBounds ==
  \A d \in 1..Len(seasonDocs) :
    LET stats == seasonDocs[d].playerStats
        n == Len(stats)
    IN  n >= 1 =>
          /\ \A k \in 1..n : stats[k].totalPoints \in 0..15
          /\ \A c \in 1..Len(Categories) :
               \E k \in 1..n :
                 categoryPointsOf(stats, Categories[c], stats[k].playerId) = 3
          /\ \E k \in 1..n : stats[k].totalPoints >= 3
          /\ \A k \in 1..n :
               (\A c \in 1..Len(Categories), j \in 1..n :
                  stats[k][Categories[c]] >= stats[j][Categories[c]])
                 => stats[k].totalPoints = 15

\* a stored aggregate in which nobody has a dry win, one entry is maximal in
\* all five categories and holds 15 points, and another entry holds fewer
C40_Witness ==
  \E d \in 1..Len(seasonDocs) :
    LET stats == seasonDocs[d].playerStats
        n == Len(stats)
    IN  /\ n >= 4
        /\ \A k \in 1..n : stats[k].dryWins = 0
        /\ \E k \in 1..n :
             /\ \A c \in 1..Len(Categories), j \in 1..n :
                  stats[k][Categories[c]] >= stats[j][Categories[c]]
             /\ stats[k].totalPoints = 15
        /\ \E k \in 1..n : stats[k].totalPoints < 15

====
